---- MODULE Spec2Model ----
(***************************************************************************)
(* Model of src/lib/ai-recommendations.ts: the AIRecommendationService     *)
(* pipeline (generateRecommendations and its four stages, the fallback,    *)
(* getTrendingProducts, getSimilarProducts) and the InteractionTracker     *)
(* (trackInteraction, getUserPreferences, updateUserPreferences,           *)
(* getTrendingProducts, getUserAnalytics, clearUserData, exportUserData,   *)
(* with the remote tables of src/database_schema.sql and localStorage).    *)
(*                                                                         *)
(* An async method is cut at its awaits: one action per run-to-completion  *)
(* segment.  The generative model is an untrusted collaborator: each call  *)
(* either throws or returns free text, which is prose (no braces), text    *)
(* with braces that JSON.parse rejects, or text whose braces parse.        *)
(***************************************************************************)
EXTENDS Integers, Sequences, FiniteSets, TLC

VARIABLES
    \* ---- AIRecommendationService: one request at a time
    products,                      \* the caller's catalog array (sorted in place by one path)
    userPreferences,               \* argument of generateRecommendations
    maxRecommendations,            \* argument maxRecommendations / maxResults
    targetProduct,                 \* argument of getSimilarProducts (id, 0 when unused)
    pc,                            \* the await the request is suspended at
    userAnalysis,                  \* local of generateRecommendations
    contentRecommendations,        \* local of generateRecommendations
    collaborativeRecommendations,  \* local of generateRecommendations
    uniqueRecommendations,         \* local of combineAndRankRecommendations
    combinedRecommendations,       \* local of generateRecommendations: stage 4's value
    result,                        \* value the returned promise settled with
    settled,                       \* "pending" | "resolved" | "rejected"
    path,                          \* which return statement produced result
    issued,                        \* stages whose model call was issued, in order
    received,                      \* stage -> kind of the response it received
    \* ---- InteractionTracker
    remoteInteractions,            \* rows of table user_interactions
    localInteractions,             \* localStorage['user_interactions'], parsed
    calls,                         \* in-flight trackInteraction calls
    nextEvent,                     \* number of events handed to trackInteraction so far; the time
    inserts,                       \* number of insert requests sent to the remote store
    history,                       \* per event handed to trackInteraction: how far it got
    storedParses,                  \* JSON.parse accepts localStorage['user_interactions']
    weekAgo,                       \* the time seven days ago
    remotePreferences,             \* rows of table user_preferences
    localPreferences,              \* localStorage['user_preferences_<key>'], parsed
    tasks,                         \* in-flight calls of the tracker's other async methods
    exported                       \* what the last exportUserData returned

svcVars == <<products, userPreferences, maxRecommendations, targetProduct, pc,
             userAnalysis, contentRecommendations, collaborativeRecommendations,
             uniqueRecommendations, combinedRecommendations, result, settled, path,
             issued, received>>
prefVars == <<weekAgo, remotePreferences, localPreferences, tasks, exported>>
trkVars == <<remoteInteractions, localInteractions, storedParses, calls, nextEvent,
             inserts, history, prefVars>>
vars == <<svcVars, trkVars>>

----------------------------------------------------------------------------
\* Bounds of the model.
MaxRecs == 2        \* longest JSON array a model response carries
MaxCount == 2       \* largest maxRecommendations / maxResults requested

----------------------------------------------------------------------------
\* Array helpers with the semantics of the JavaScript built-ins used.

Min(a, b) == IF a <= b THEN a ELSE b
Max(a, b) == IF a >= b THEN a ELSE b
Abs(x) == IF x < 0 THEN -x ELSE x

\* Array.prototype.includes
Includes(s, x) == \E i \in 1..Len(s) : s[i] = x

\* Array.prototype.slice(from, to) for 0 <= from, 0 <= to
Slice(s, from, to) == SubSeq(s, from + 1, Min(to, Len(s)))

\* Array.prototype.slice(-n) for n > 0
SliceLast(s, n) == SubSeq(s, Max(Len(s) - n, 0) + 1, Len(s))

\* Array.prototype.sort((a, b) => key(a) - key(b)), with keys[i] = key(s[i]):
\* stable; an element moves before another exactly when its key is smaller,
\* or the keys are equal and it came first.
Sort(s, keys) ==
    LET rank(i) == 1 + Cardinality({j \in 1..Len(s) :
                        \/ keys[j] < keys[i]
                        \/ keys[j] = keys[i] /\ j < i})
    IN  [r \in 1..Len(s) |-> s[CHOOSE i \in 1..Len(s) : rank(i) = r]]

\* self.findIndex(r => r.productId === id), 1-based; 0 when absent
FindIndex(s, id) ==
    IF \E i \in 1..Len(s) : s[i].productId = id
    THEN CHOOSE i \in 1..Len(s) :
            /\ s[i].productId = id
            /\ \A j \in 1..(i - 1) : s[j].productId # id
    ELSE 0

SeqsUpTo(S, n) == UNION {[1..k -> S] : k \in 0..n}

----------------------------------------------------------------------------
\* Data: products, preferences, recommendations.

\* A Product. ratings.average is kept in tenths (48 is 4.8); prices are whole
\* multiples of 10 dollars so that |priceDiff| / 10 is exact.
Product(id, category, price, average10, count, inStock) ==
    [id |-> id, category |-> category, price |-> price,
     ratings |-> [average10 |-> average10, count |-> count], inStock |-> inStock]

P1 == Product(1, "Electronics", 100, 40, 100, TRUE)
P2 == Product(2, "Electronics", 90, 45, 5, FALSE)
P3 == Product(3, "Electronics", 150, 45, 5, TRUE)
P4 == Product(4, "Books", 20, 48, 50, TRUE)
P5 == Product(5, "Electronics", 1000, 40, 5, TRUE)

Catalogs == { <<P1, P2, P3, P4>>, <<P3, P4, P2>>, <<P2, P1>>, <<P5, P1, P2>> }

\* an entry of interactionHistory, as far as the service reads it
Interaction(productId, type) ==
    [productId |-> productId, interactionType |-> type, timestamp |-> <<"date", 0>>]

Preference(userId, categories, features, interactions) ==
    [userId |-> userId, preferredCategories |-> categories,
     preferredFeatures |-> features, interactionHistory |-> interactions]

Preferences ==
    { Preference("u0", <<"Electronics">>, <<>>, <<>>),
      Preference("u1", <<"Electronics", "Books">>,
                 <<"camera", "battery", "display", "audio">>,
                 <<Interaction(1, "view")>>),
      Preference("u2", <<"Books">>, <<"paperback">>,
                 <<Interaction(9, "like"), Interaction(3, "purchase")>>) }

NoPreference == Preference("", <<>>, <<>>, <<>>)

Recommendation(productId, score, reason, category) ==
    [productId |-> productId, score |-> score, reason |-> reason, category |-> category]

----------------------------------------------------------------------------
\* The generative model's responses, as the code distinguishes them.
\*   throw   : model.generateContent rejects
\*   prose   : text in which the regular expression finds no {...} / [...] span
\*   badjson : text with such a span that JSON.parse rejects
\*   json    : text whose span parses to value

Response(kind, value) == [kind |-> kind, value |-> value]

\* text.match(/\{[\s\S]*\}/) or text.match(/\[[\s\S]*\]/) found a span
Matches(r) == r.kind \in {"badjson", "json"}

\* JSON.parse(jsonMatch[0]) returns (rather than throws)
Parses(r) == r.kind = "json"

AnalysisFields == {"intent", "categoryStrength", "brandLoyalty", "priceSensitivity",
                   "topFeatures", "behaviorPatterns"}

\* A parsed analysis object; `present` are the properties the object carries
\* (reading any other yields undefined).
Analysis(present, intent, strengths, topFeatures, behaviorPatterns) ==
    [present |-> present, intent |-> intent,
     categoryStrength |-> strengths[1], brandLoyalty |-> strengths[2],
     priceSensitivity |-> strengths[3],
     topFeatures |-> topFeatures, behaviorPatterns |-> behaviorPatterns]

NoAnalysis == Analysis({}, "", <<0, 0, 0>>, <<>>, <<>>)

\* Objects the model may answer the analysis prompt with: the requested
\* shape, and objects lacking one of the array properties.
ParsedAnalyses ==
    { Analysis(AnalysisFields, "specific purchase", <<8, 3, 6>>,
               <<"camera">>, <<"compares_prices">>),
      Analysis(AnalysisFields \ {"behaviorPatterns"}, "comparing products",
               <<4, 4, 4>>, <<"battery">>, <<>>),
      Analysis({"intent"}, "browsing", <<0, 0, 0>>, <<>>, <<>>) }

NonJson == { Response("throw", <<>>), Response("prose", <<>>), Response("badjson", <<>>) }

AnalysisResponses == NonJson \cup { Response("json", a) : a \in ParsedAnalyses }

ArrayResponses(recs) == NonJson \cup { Response("json", l) : l \in SeqsUpTo(recs, MaxRecs) }

\* Entries the model may put in its arrays, per prompt.
ContentEntries ==
    { Recommendation(1, 50, <<"similar">>, "content_based"),
      Recommendation(2, 90, <<"similar">>, "content_based") }
CollaborativeEntries ==
    { Recommendation(1, 70, <<"popular">>, "collaborative"),
      Recommendation(2, 60, <<"popular">>, "collaborative") }
RankedEntries ==
    { Recommendation(1, 80, <<"ranked">>, "personalized"),
      Recommendation(3, 95, <<"ranked">>, "personalized") }
TrendingEntries ==
    { Recommendation(4, 88, <<"hot">>, "trending"),
      Recommendation(1, 77, <<"hot">>, "trending") }
SimilarEntries ==
    { Recommendation(2, 66, <<"alike">>, "similar"),
      Recommendation(3, 55, <<"alike">>, "similar") }

Stages == {"analysis", "content", "collaborative", "rank", "trending", "similar"}

----------------------------------------------------------------------------
\* AIRecommendationService: the pure parts.

\* analyzeUserBehavior, after the model answered: the parsed object, or the
\* fixed default when no span is found or JSON.parse throws.
DefaultAnalysis(prefs) ==
    Analysis(AnalysisFields, "browsing", <<5, 5, 5>>,
             Slice(prefs.preferredFeatures, 0, 3), <<"general_browsing">>)

ParseAnalysis(prefs, r) ==
    IF Matches(r) /\ Parses(r) THEN r.value ELSE DefaultAnalysis(prefs)

\* The array stages, after the model answered: the parsed array, or [].
ParseArray(r) ==
    IF Matches(r) /\ Parses(r) THEN r.value ELSE <<>>

\* analyzeUserBehavior: the interactions embedded in the analysis prompt
RecentWindow == 20
RecentInteractions(prefs) ==
    LET recent == SliceLast(prefs.interactionHistory, RecentWindow)
    IN  [i \in 1..Len(recent) |->
            [type |-> recent[i].interactionType, timestamp |-> recent[i].timestamp,
             productId |-> recent[i].productId]]

\* userPreferences.interactionHistory.map(i => i.productId)
InteractedProductIds(prefs) ==
    [i \in 1..Len(prefs.interactionHistory) |-> prefs.interactionHistory[i].productId]

\* products.filter(p => interactedProductIds.includes(p.id))
InteractedProducts(prods, prefs) ==
    SelectSeq(prods, LAMBDA p : Includes(InteractedProductIds(prefs), p.id))

\* Building a prompt evaluates x.join(', ') on these properties of the
\* analysis: a TypeError when the parsed object lacks the property.
ContentPromptThrows(a) == "topFeatures" \notin a.present
CollaborativePromptThrows(a) == "behaviorPatterns" \notin a.present
RankPromptThrows(a) == "topFeatures" \notin a.present

\* Mutant of UniqueBy: the last occurrence of a productId is kept.
UniqueBy_keepsLast(all) ==
    LET keep == {i \in 1..Len(all) :
                    \A j \in (i + 1)..Len(all) : all[j].productId # all[i].productId}
        nth(k) == CHOOSE i \in keep : Cardinality({j \in keep : j < i}) = k - 1
    IN  [k \in 1..Cardinality(keep) |-> all[nth(k)]]

\* allRecommendations.filter((rec, index, self) =>
\*     self.findIndex(r => r.productId === rec.productId) === index)
UniqueBy(all) ==
    LET keep == {i \in 1..Len(all) : FindIndex(all, all[i].productId) = i}
        nth(k) == CHOOSE i \in keep : Cardinality({j \in keep : j < i}) = k - 1
    IN  [k \in 1..Cardinality(keep) |-> all[nth(k)]]

UniqueRecommendations(content, collaborative) == UniqueBy(content \o collaborative)

\* uniqueRecommendations.sort((a, b) => b.score - a.score)
SortByScore(recs) == Sort(recs, [i \in 1..Len(recs) |-> 0 - recs[i].score])

\* Mutant of RankResult: the fallback returns the candidates unsorted.
RankResult_unsorted(unique, r) ==
    IF Matches(r) /\ Parses(r) THEN r.value ELSE unique

\* combineAndRankRecommendations, after the model answered
RankResult(unique, r) ==
    IF Matches(r) /\ Parses(r) THEN r.value ELSE SortByScore(unique)

\* Mutant of GetFallbackRecommendations: out-of-stock products are dropped.
GetFallbackRecommendations_inStockOnly(prods, prefs, maxN) ==
    LET interactedProductIds == InteractedProductIds(prefs)
        availableProducts ==
            SelectSeq(prods, LAMBDA p : p.inStock /\ ~Includes(interactedProductIds, p.id))
        inCategories ==
            SelectSeq(availableProducts,
                      LAMBDA p : Includes(prefs.preferredCategories, p.category))
        sorted == Sort(inCategories,
                       [i \in 1..Len(inCategories) |-> 0 - inCategories[i].ratings.average10])
        top == Slice(sorted, 0, maxN)
    IN  [i \in 1..Len(top) |->
            Recommendation(top[i].id, (top[i].ratings.average10 * 20) \div 10,
                           <<"interest in", top[i].category>>, "fallback")]

\* getFallbackRecommendations
GetFallbackRecommendations(prods, prefs, maxN) ==
    LET interactedProductIds == InteractedProductIds(prefs)
        availableProducts ==
            SelectSeq(prods, LAMBDA p : ~Includes(interactedProductIds, p.id))
        inCategories ==
            SelectSeq(availableProducts,
                      LAMBDA p : Includes(prefs.preferredCategories, p.category))
        sorted == Sort(inCategories,
                       [i \in 1..Len(inCategories) |-> 0 - inCategories[i].ratings.average10])
        top == Slice(sorted, 0, maxN)
    IN  [i \in 1..Len(top) |->
            Recommendation(top[i].id, (top[i].ratings.average10 * 20) \div 10,
                           <<"interest in", top[i].category>>, "fallback")]

\* Math.log(n) in thousandths, for the review counts + 1 of the catalog.
LnMilli(n) ==
    CASE n = 1 -> 0
      [] n = 6 -> 1792
      [] n = 51 -> 3932
      [] n = 101 -> 4615

\* Mutant of TrendingKey: the review count is left out.
TrendingKey_averageOnly(p) == p.ratings.average10

\* p.ratings.average * Math.log(p.ratings.count + 1)
TrendingKey(p) == p.ratings.average10 * LnMilli(p.ratings.count + 1)

\* products.sort(...) of the trending fallback: the caller's array, in place
TrendingSorted(prods) == Sort(prods, [i \in 1..Len(prods) |-> 0 - TrendingKey(prods[i])])

TrendingFallback(sorted, maxN) ==
    LET top == Slice(sorted, 0, maxN)
    IN  [i \in 1..Len(top) |->
            Recommendation(top[i].id, (top[i].ratings.average10 * 20) \div 10,
                           <<"high rating", top[i].ratings.count>>, "trending")]

\* Mutant of SimilarFallback: the score is kept from going below 0.
SimilarFallback_clamped(target, prods, maxN) ==
    LET sameCategory ==
            SelectSeq(prods, LAMBDA p : p.id # target.id /\ p.category = target.category)
        sorted == Sort(sameCategory,
                       [i \in 1..Len(sameCategory) |->
                           Abs(sameCategory[i].price - target.price)])
        top == Slice(sorted, 0, maxN)
    IN  [i \in 1..Len(top) |->
            Recommendation(top[i].id,
                           Max(0, 80 - Abs(top[i].price - target.price) \div 10),
                           <<"similar", top[i].category>>, "similar")]

\* the fallback of getSimilarProducts
SimilarFallback(target, prods, maxN) ==
    LET sameCategory ==
            SelectSeq(prods, LAMBDA p : p.id # target.id /\ p.category = target.category)
        sorted == Sort(sameCategory,
                       [i \in 1..Len(sameCategory) |->
                           Abs(sameCategory[i].price - target.price)])
        top == Slice(sorted, 0, maxN)
    IN  [i \in 1..Len(top) |->
            Recommendation(top[i].id, 80 - Abs(top[i].price - target.price) \div 10,
                           <<"similar", top[i].category>>, "similar")]

----------------------------------------------------------------------------
\* AIRecommendationService: the request, one action per segment between awaits.

NoProduct == Product(0, "", 0, 0, 0, FALSE)
NoneReceived == [st \in Stages |-> "none"]

Receive(stage, r) == received' = [received EXCEPT ![stage] = r.kind]

\* Mutant of Proceed: the collaborative call is issued together with the
\* content-based one (Promise.all), not after it.
Proceed_parallel(stage) ==
    /\ pc' = stage
    /\ issued' = IF stage = "content"
                 THEN issued \o <<"content", "collaborative">>
                 ELSE Append(issued, stage)
    /\ UNCHANGED <<combinedRecommendations, result, settled, path>>

\* The request goes on to the model call of `stage`.
Proceed(stage) ==
    /\ pc' = stage
    /\ issued' = Append(issued, stage)
    /\ UNCHANGED <<combinedRecommendations, result, settled, path>>

\* Mutant of CatchFallback: the error is rethrown to the caller.
CatchFallback_rethrows ==
    /\ result' = <<>>
    /\ settled' = "rejected"
    /\ path' = "thrown"
    /\ pc' = "done"
    /\ UNCHANGED <<combinedRecommendations, issued>>

\* The catch block of generateRecommendations.
CatchFallback ==
    /\ result' = GetFallbackRecommendations(products, userPreferences, maxRecommendations)
    /\ settled' = "resolved"
    /\ path' = "fallback"
    /\ pc' = "done"
    /\ UNCHANGED <<combinedRecommendations, issued>>

\* getCollaborativeRecommendations up to its await
EnterCollaborative(a) ==
    IF CollaborativePromptThrows(a) THEN CatchFallback ELSE Proceed("collaborative")

\* combineAndRankRecommendations up to its await
EnterRank(a) ==
    IF RankPromptThrows(a) THEN CatchFallback ELSE Proceed("rank")

\* generateRecommendations is called; analyzeUserBehavior runs to its await.
GenerateRecommendations(prefs, maxN) ==
    /\ UNCHANGED trkVars
    /\ pc \in {"idle", "done"}
    /\ userPreferences' = prefs
    /\ maxRecommendations' = maxN
    /\ targetProduct' = NoProduct
    /\ userAnalysis' = NoAnalysis
    /\ contentRecommendations' = <<>>
    /\ collaborativeRecommendations' = <<>>
    /\ uniqueRecommendations' = <<>>
    /\ combinedRecommendations' = <<>>
    /\ result' = <<>>
    /\ settled' = "pending"
    /\ path' = "none"
    /\ pc' = "analysis"
    /\ issued' = <<"analysis">>
    /\ received' = NoneReceived
    /\ UNCHANGED products

\* The analysis call settles; getContentBasedRecommendations runs to its
\* await or returns [] early, in which case getCollaborativeRecommendations
\* runs to its await.
AnalysisResponds(r) ==
    /\ UNCHANGED trkVars
    /\ pc = "analysis"
    /\ Receive("analysis", r)
    /\ UNCHANGED <<products, userPreferences, maxRecommendations, targetProduct,
                   collaborativeRecommendations, uniqueRecommendations,
                   contentRecommendations>>
    /\ IF r.kind = "throw"
       THEN /\ CatchFallback
            /\ UNCHANGED userAnalysis
       ELSE LET a == ParseAnalysis(userPreferences, r) IN
            /\ userAnalysis' = a
            /\ IF Len(InteractedProducts(products, userPreferences)) = 0
               THEN EnterCollaborative(a)
               ELSE IF ContentPromptThrows(a) THEN CatchFallback ELSE Proceed("content")

\* The content-based call settles; getCollaborativeRecommendations runs to its await.
ContentResponds(r) ==
    /\ UNCHANGED trkVars
    /\ pc = "content"
    /\ Receive("content", r)
    /\ UNCHANGED <<products, userPreferences, maxRecommendations, targetProduct,
                   userAnalysis, collaborativeRecommendations, uniqueRecommendations>>
    /\ IF r.kind = "throw"
       THEN /\ CatchFallback
            /\ UNCHANGED contentRecommendations
       ELSE /\ contentRecommendations' = ParseArray(r)
            /\ EnterCollaborative(userAnalysis)

\* The collaborative call settles; combineAndRankRecommendations runs to its await.
CollaborativeResponds(r) ==
    /\ UNCHANGED trkVars
    /\ pc = "collaborative"
    /\ Receive("collaborative", r)
    /\ UNCHANGED <<products, userPreferences, maxRecommendations, targetProduct,
                   userAnalysis, contentRecommendations>>
    /\ IF r.kind = "throw"
       THEN /\ CatchFallback
            /\ UNCHANGED <<collaborativeRecommendations, uniqueRecommendations>>
       ELSE /\ collaborativeRecommendations' = ParseArray(r)
            /\ uniqueRecommendations' =
                   UniqueRecommendations(contentRecommendations, ParseArray(r))
            /\ EnterRank(userAnalysis)

\* The re-rank call settles; generateRecommendations truncates and returns.
RankResponds(r) ==
    /\ UNCHANGED trkVars
    /\ pc = "rank"
    /\ Receive("rank", r)
    /\ UNCHANGED <<products, userPreferences, maxRecommendations, targetProduct,
                   userAnalysis, contentRecommendations, collaborativeRecommendations,
                   uniqueRecommendations>>
    /\ IF r.kind = "throw"
       THEN CatchFallback
       ELSE /\ combinedRecommendations' = RankResult(uniqueRecommendations, r)
            /\ result' = Slice(RankResult(uniqueRecommendations, r), 0, maxRecommendations)
            /\ settled' = "resolved"
            /\ path' = IF Matches(r) /\ Parses(r) THEN "reranked" ELSE "sorted"
            /\ pc' = "done"
            /\ UNCHANGED issued

\* getTrendingProducts is called and runs to its await.
GetTrendingProducts(maxN) ==
    /\ UNCHANGED trkVars
    /\ pc \in {"idle", "done"}
    /\ userPreferences' = NoPreference
    /\ maxRecommendations' = maxN
    /\ targetProduct' = NoProduct
    /\ userAnalysis' = NoAnalysis
    /\ contentRecommendations' = <<>>
    /\ collaborativeRecommendations' = <<>>
    /\ uniqueRecommendations' = <<>>
    /\ combinedRecommendations' = <<>>
    /\ result' = <<>>
    /\ settled' = "pending"
    /\ path' = "none"
    /\ pc' = "trending"
    /\ issued' = <<"trending">>
    /\ received' = NoneReceived
    /\ UNCHANGED products

\* The trending call settles (its await is inside the try).
TrendingResponds(r) ==
    /\ UNCHANGED trkVars
    /\ pc = "trending"
    /\ Receive("trending", r)
    /\ settled' = "resolved"
    /\ pc' = "done"
    /\ UNCHANGED <<userPreferences, maxRecommendations, targetProduct, userAnalysis,
                   contentRecommendations, collaborativeRecommendations,
                   uniqueRecommendations, combinedRecommendations, issued>>
    /\ IF r.kind # "throw" /\ Matches(r) /\ Parses(r)
       THEN /\ result' = r.value
            /\ path' = "trending_model"
            /\ UNCHANGED products
       ELSE /\ products' = TrendingSorted(products)
            /\ result' = TrendingFallback(TrendingSorted(products), maxRecommendations)
            /\ path' = "trending_fallback"

\* getSimilarProducts is called and runs to its await.
GetSimilarProducts(target, maxN) ==
    /\ UNCHANGED trkVars
    /\ pc \in {"idle", "done"}
    /\ userPreferences' = NoPreference
    /\ maxRecommendations' = maxN
    /\ targetProduct' = target
    /\ userAnalysis' = NoAnalysis
    /\ contentRecommendations' = <<>>
    /\ collaborativeRecommendations' = <<>>
    /\ uniqueRecommendations' = <<>>
    /\ combinedRecommendations' = <<>>
    /\ result' = <<>>
    /\ settled' = "pending"
    /\ path' = "none"
    /\ pc' = "similar"
    /\ issued' = <<"similar">>
    /\ received' = NoneReceived
    /\ UNCHANGED products

\* The similarity call settles (its await is inside the try).
SimilarResponds(r) ==
    /\ UNCHANGED trkVars
    /\ pc = "similar"
    /\ Receive("similar", r)
    /\ settled' = "resolved"
    /\ pc' = "done"
    /\ UNCHANGED <<products, userPreferences, maxRecommendations, targetProduct,
                   userAnalysis, contentRecommendations, collaborativeRecommendations,
                   uniqueRecommendations, combinedRecommendations, issued>>
    /\ IF r.kind # "throw" /\ Matches(r) /\ Parses(r)
       THEN /\ result' = r.value
            /\ path' = "similar_model"
       ELSE /\ result' = SimilarFallback(targetProduct, products, maxRecommendations)
            /\ path' = "similar_fallback"

----------------------------------------------------------------------------
\* InteractionTracker: trackInteraction, the remote table and localStorage.

LocalCap == 1000            \* "Keep only last 1000 interactions"
MaxEvents == 3              \* events handed to trackInteraction in one behaviour
MaxMirrored == 1002         \* events mirrored in the behaviours of SpecLocalCap
MaxRows == 4                \* rows of user_interactions in the behaviours of SpecTrending
MaxLimit == 2               \* largest limit handed to the tracker's getTrendingProducts
MaxStored == 3              \* events in localStorage in the behaviours of SpecPrivacy
MaxSession == 2             \* events tracked in the behaviours of SpecSession
MaxHistory == 22            \* rows of one user in the behaviours of SpecHistory

Callers == {1, 2}           \* trackInteraction calls that may be in flight together

NoUser == "null"
SessionId == "k3j9x0session"  \* this.sessionId, generated once by the constructor
Undefined == {<<"undefined">>}

\* the argument of trackInteraction: Omit<UserInteraction, 'id' | 'timestamp'>
TrackedInteraction(userId, productId, type, sessionId, metadata) ==
    [userId |-> userId, productId |-> productId, interactionType |-> type,
     sessionId |-> sessionId, metadata |-> metadata]

Interactions ==
    { TrackedInteraction("anonymous", 1, "view", "current_session",
                         {<<"category", "Electronics">>}),
      TrackedInteraction("u1", 2, "purchase", "test-session", Undefined) }

NoInteraction == TrackedInteraction("", 0, "", "", Undefined)

\* interaction.metadata || {}
OrEmpty(metadata) == IF metadata = Undefined THEN {} ELSE metadata

\* JSON.stringify followed by JSON.parse: a Date comes back as its ISO string
Stringify(interactions) ==
    [i \in 1..Len(interactions) |->
        [interactions[i] EXCEPT !.timestamp = <<"iso", @[2]>>]]

\* Mutant of SpliceFront: the newest entries are dropped.
SpliceFront_dropsNewest(s, n) == SubSeq(s, 1, Len(s) - n)

\* interactions.splice(0, n)
SpliceFront(s, n) == SubSeq(s, n + 1, Len(s))

\* Mutant of TrackInteractionLocal: the list is not read back; the new event
\* alone is written.
TrackInteractionLocal_overwrites(stored, interaction, id, now) ==
    Stringify(<< [id |-> id, userId |-> interaction.userId,
                  productId |-> interaction.productId,
                  interactionType |-> interaction.interactionType,
                  timestamp |-> <<"date", now>>, sessionId |-> SessionId,
                  metadata |-> OrEmpty(interaction.metadata)] >>)

\* trackInteractionLocal: the new value of localStorage['user_interactions'].
\* id stands for the random id, now for new Date().
TrackInteractionLocal(stored, interaction, id, now) ==
    LET newInteraction ==
            [id |-> id, userId |-> interaction.userId,
             productId |-> interaction.productId,
             interactionType |-> interaction.interactionType,
             timestamp |-> <<"date", now>>, sessionId |-> SessionId,
             metadata |-> OrEmpty(interaction.metadata)]
        pushed == Append(stored, newInteraction)
        kept == IF Len(pushed) > LocalCap
                THEN SpliceFront(pushed, Len(pushed) - LocalCap)
                ELSE pushed
    IN  Stringify(kept)

\* Mutant of InsertedRow: the row carries the sessionId the caller supplied.
InsertedRow_callerSession(user, interaction, id, at) ==
    [id |-> id, user_id |-> user, product_id |-> interaction.productId,
     interaction_type |-> interaction.interactionType,
     session_id |-> interaction.sessionId,
     metadata |-> OrEmpty(interaction.metadata), created_at |-> at]

\* the row of the insert into user_interactions; id is the key the table
\* assigns, at the time of the insert (created_at DEFAULT NOW())
InsertedRow(user, interaction, id, at) ==
    [id |-> id, user_id |-> user, product_id |-> interaction.productId,
     interaction_type |-> interaction.interactionType, session_id |-> SessionId,
     metadata |-> OrEmpty(interaction.metadata), created_at |-> at]

Call(at, interaction, event, user, state) ==
    [pc |-> at, interaction |-> interaction, event |-> event, user |-> user,
     settled |-> state]

IdleCall == Call("idle", NoInteraction, 0, NoUser, "none")

\* the call returns: its promise resolves with undefined
Returns(c, how) ==
    /\ calls' = [calls EXCEPT ![c].pc = "done", ![c].settled = "resolved"]
    /\ history' = [history EXCEPT ![calls[c].event] = how]

\* an exception leaves the call: its promise rejects
Throws(c, how) ==
    /\ calls' = [calls EXCEPT ![c].pc = "done", ![c].settled = "rejected"]
    /\ history' = [history EXCEPT ![calls[c].event] = how]

\* The catch block, and the error branch, of trackInteraction, to the return.
\* trackInteractionLocal runs outside any try: when JSON.parse rejects the
\* stored text (or yields a value without push) the exception leaves the call
\* before setItem.
MirrorLocally(c, how) ==
    IF storedParses
    THEN /\ localInteractions' =
                TrackInteractionLocal(localInteractions, calls[c].interaction,
                                      calls[c].event, nextEvent)
         /\ UNCHANGED storedParses
         /\ Returns(c, how)
    ELSE /\ UNCHANGED <<localInteractions, storedParses>>
         /\ Throws(c, "local_threw")

\* trackInteraction is called and runs to await supabase.auth.getUser().
TrackInteraction(c, interaction) ==
    /\ UNCHANGED svcVars
    /\ calls[c].pc \in {"idle", "done"}
    /\ nextEvent < MaxEvents
    /\ nextEvent' = nextEvent + 1
    /\ calls' = [calls EXCEPT ![c] = Call("auth", interaction, nextEvent + 1, NoUser, "pending")]
    /\ history' = Append(history, "auth")
    /\ UNCHANGED <<remoteInteractions, localInteractions, storedParses, inserts, prefVars>>

\* Mutant of AuthResponds: without a user the event is mirrored locally.
AuthResponds_mirrorsNoUser(c, a) ==
    /\ UNCHANGED svcVars
    /\ calls[c].pc = "auth"
    /\ UNCHANGED <<remoteInteractions, nextEvent, prefVars>>
    /\ CASE a = "throw" ->
              /\ MirrorLocally(c, "auth_threw")
              /\ UNCHANGED inserts
         [] a = NoUser ->
              /\ MirrorLocally(c, "no_user")
              /\ UNCHANGED inserts
         [] OTHER ->
              /\ calls' = [calls EXCEPT ![c].pc = "insert", ![c].user = a]
              /\ history' = [history EXCEPT ![calls[c].event] = "insert"]
              /\ inserts' = inserts + 1
              /\ UNCHANGED <<localInteractions, storedParses>>

\* getUser() settles: with a user, with no user, or by throwing; with a user
\* the insert is sent and awaited.
AuthResponds(c, a) ==
    /\ UNCHANGED svcVars
    /\ calls[c].pc = "auth"
    /\ UNCHANGED <<remoteInteractions, nextEvent, prefVars>>
    /\ CASE a = "throw" ->
              /\ MirrorLocally(c, "auth_threw")
              /\ UNCHANGED inserts
         [] a = NoUser ->
              /\ Returns(c, "no_user")
              /\ UNCHANGED <<localInteractions, storedParses, inserts>>
         [] OTHER ->
              /\ calls' = [calls EXCEPT ![c].pc = "insert", ![c].user = a]
              /\ history' = [history EXCEPT ![calls[c].event] = "insert"]
              /\ inserts' = inserts + 1
              /\ UNCHANGED <<localInteractions, storedParses>>

\* Mutant of InsertResponds: the event is mirrored locally whatever the insert did.
InsertResponds_mirrorsAlways(c, o) ==
    /\ UNCHANGED svcVars
    /\ calls[c].pc = "insert"
    /\ UNCHANGED <<nextEvent, inserts, prefVars>>
    /\ IF o = "ok"
       THEN /\ remoteInteractions' =
                   Append(remoteInteractions,
                          InsertedRow(calls[c].user, calls[c].interaction, calls[c].event,
                                      nextEvent))
            /\ MirrorLocally(c, "stored")
       ELSE /\ MirrorLocally(c, IF o = "error" THEN "insert_error" ELSE "insert_threw")
            /\ UNCHANGED remoteInteractions

\* The insert settles: stored, refused with an error, or thrown.  A refused
\* or thrown insert stored nothing.
InsertResponds(c, o) ==
    /\ UNCHANGED svcVars
    /\ calls[c].pc = "insert"
    /\ UNCHANGED <<nextEvent, inserts, prefVars>>
    /\ IF o = "ok"
       THEN /\ remoteInteractions' =
                   Append(remoteInteractions,
                          InsertedRow(calls[c].user, calls[c].interaction, calls[c].event,
                                      nextEvent))
            /\ Returns(c, "stored")
            /\ UNCHANGED <<localInteractions, storedParses>>
       ELSE /\ MirrorLocally(c, IF o = "error" THEN "insert_error" ELSE "insert_threw")
            /\ UNCHANGED remoteInteractions

\* trackInteractionLocal on its own, with a fixed event (SpecLocalCap)
MirrorOne ==
    /\ UNCHANGED svcVars
    /\ nextEvent < MaxMirrored
    /\ storedParses
    /\ nextEvent' = nextEvent + 1
    /\ localInteractions' =
           TrackInteractionLocal(localInteractions,
                                 TrackedInteraction("anonymous", 1, "view", "current_session",
                                                    Undefined),
                                 nextEvent + 1, nextEvent + 1)
    /\ UNCHANGED <<remoteInteractions, storedParses, calls, inserts, history, prefVars>>

----------------------------------------------------------------------------
\* InteractionTracker: the preference row, the history and the local entries.

HistoryLimit == 100         \* .limit(100)
DefaultPriceMin == 0        \* price_range_min || 0
DefaultPriceMax == 3000     \* price_range_max || 3000

Tasks == {1, 2}             \* promises of the tracker's other methods that may be pending

NoUserId == ""              \* an absent userId argument; '' is falsy like undefined

\* x || d for a number: 0 is falsy
OrNumber(x, d) == IF x = 0 THEN d ELSE x

\* a row of table user_preferences
PreferenceRow(user_id, categories, brands, min, max, features, updated_at) ==
    [user_id |-> user_id, preferred_categories |-> categories,
     preferred_brands |-> brands, price_range_min |-> min, price_range_max |-> max,
     preferred_features |-> features, updated_at |-> updated_at]

\* data: null of a select; every field read through ?. is undefined
NoRow == PreferenceRow("", <<>>, <<>>, 0, 0, <<>>, 0)

\* the UserPreference the tracker returns
UserPreference(userId, categories, brands, priceRange, features, interactions, lastUpdated) ==
    [userId |-> userId, preferredCategories |-> categories, preferredBrands |-> brands,
     priceRange |-> priceRange, preferredFeatures |-> features,
     interactionHistory |-> interactions, lastUpdated |-> lastUpdated]

\* getDefaultPreferences
GetDefaultPreferences(now) ==
    UserPreference("anonymous", <<>>, <<>>, <<DefaultPriceMin, DefaultPriceMax>>, <<>>, <<>>,
                   <<"date", now>>)

\* Mutant of TargetUserId: the session's user comes before the argument.
TargetUserId_prefersSession(userId, user) ==
    IF user # NoUser THEN user ELSE userId

\* userId || user?.id ; NoUserId when both are absent
TargetUserId(userId, user) ==
    IF userId # NoUserId THEN userId
    ELSE IF user # NoUser THEN user ELSE NoUserId

\* Row level security of both tables: USING (auth.uid() = user_id)
Visible(rows, user) == SelectSeq(rows, LAMBDA r : r.user_id = user)

\* .from('user_preferences').select('*').eq('user_id', target).single():
\* the row, or data: null when there is none to see
SelectPreferences(rows, user, target) ==
    LET found == SelectSeq(Visible(rows, user), LAMBDA r : r.user_id = target)
    IN  IF Len(found) = 1 THEN found[1] ELSE NoRow

\* Mutant of SelectInteractions: the events mirrored into localStorage for
\* the target are merged into what the table returned.
SelectInteractions_withLocal(rows, user, target) ==
    LET found == SelectSeq(Visible(rows, user), LAMBDA r : r.user_id = target)
        mirrored == SelectSeq(localInteractions, LAMBDA e : e.userId = target)
        merged == found \o [i \in 1..Len(mirrored) |->
                               [id |-> mirrored[i].id, user_id |-> mirrored[i].userId,
                                product_id |-> mirrored[i].productId,
                                interaction_type |-> mirrored[i].interactionType,
                                session_id |-> mirrored[i].sessionId,
                                metadata |-> mirrored[i].metadata,
                                created_at |-> mirrored[i].timestamp[2]]]
        newestFirst == Sort(merged, [i \in 1..Len(merged) |-> 0 - merged[i].created_at])
    IN  Slice(newestFirst, 0, HistoryLimit)

\* .from('user_interactions').select('*').eq('user_id', target)
\*    .order('created_at', { ascending: false }).limit(100)
SelectInteractions(rows, user, target) ==
    LET found == SelectSeq(Visible(rows, user), LAMBDA r : r.user_id = target)
        newestFirst == Sort(found, [i \in 1..Len(found) |-> 0 - found[i].created_at])
    IN  Slice(newestFirst, 0, HistoryLimit)

\* interactions?.map(...) || []
InteractionHistory(target, rows) ==
    [i \in 1..Len(rows) |->
        [id |-> rows[i].id, userId |-> target, productId |-> rows[i].product_id,
         interactionType |-> rows[i].interaction_type,
         timestamp |-> <<"date", rows[i].created_at>>,
         sessionId |-> rows[i].session_id, metadata |-> rows[i].metadata]]

\* "Convert database data to UserPreference format"; row is NoRow and rows
\* is empty where the query returned data: null
ConvertPreferences(target, row, rows, now) ==
    UserPreference(target, row.preferred_categories, row.preferred_brands,
                   <<OrNumber(row.price_range_min, DefaultPriceMin),
                     OrNumber(row.price_range_max, DefaultPriceMax)>>,
                   row.preferred_features, InteractionHistory(target, rows),
                   <<"date", OrNumber(row.updated_at, now)>>)

\* JSON.stringify of a UserPreference: each Date becomes its ISO string
StringifyPreference(p) ==
    [p EXCEPT !.lastUpdated = <<"iso", @[2]>>,
              !.interactionHistory =
                  [i \in 1..Len(p.interactionHistory) |->
                      [p.interactionHistory[i] EXCEPT !.timestamp = <<"iso", @[2]>>]]]

\* new Date(...) over lastUpdated and the timestamps of a parsed entry
RevivePreference(stored) ==
    [stored EXCEPT !.lastUpdated = <<"date", @[2]>>,
                   !.interactionHistory =
                       [i \in 1..Len(stored.interactionHistory) |->
                           [stored.interactionHistory[i] EXCEPT
                               !.timestamp = <<"date", @[2]>>]]]

\* `user_preferences_${userId || 'anonymous'}`
LocalKey(userId) == IF userId = NoUserId THEN "anonymous" ELSE userId

\* getUserPreferencesLocal
GetUserPreferencesLocal(entries, userId, now) ==
    IF LocalKey(userId) \in DOMAIN entries
    THEN RevivePreference(entries[LocalKey(userId)])
    ELSE GetDefaultPreferences(now)

\* localStorage.setItem(key, value)
SetItem(entries, key, value) ==
    [k \in DOMAIN entries \cup {key} |-> IF k = key THEN value ELSE entries[k]]

\* localStorage.removeItem(key)
RemoveItem(entries, key) == [k \in DOMAIN entries \ {key} |-> entries[k]]

----------------------------------------------------------------------------
\* InteractionTracker: updates, the local history, analytics, trending.

UpdateFields == {"userId", "preferredCategories", "preferredBrands", "priceRange",
                 "preferredFeatures"}

\* The Partial<UserPreference> handed to updateUserPreferences; present is
\* the set of keys it has, an absent key reads as undefined.
Update(present, userId, categories, brands, priceRange, features) ==
    [present |-> present,
     userId |-> IF "userId" \in present THEN userId ELSE NoUserId,
     preferredCategories |-> IF "preferredCategories" \in present THEN categories ELSE <<>>,
     preferredBrands |-> IF "preferredBrands" \in present THEN brands ELSE <<>>,
     priceRange |-> IF "priceRange" \in present THEN priceRange ELSE <<0, 0>>,
     preferredFeatures |-> IF "preferredFeatures" \in present THEN features ELSE <<>>]

NoUpdate == Update({}, NoUserId, <<>>, <<>>, <<0, 0>>, <<>>)

Updates ==
    { Update(UpdateFields, "u1", <<"Books">>, <<"Acme">>, <<10, 500>>, <<"paperback">>),
      Update({"preferredCategories", "priceRange"}, NoUserId, <<"Electronics">>, <<>>,
             <<0, 0>>, <<>>) }

\* the row handed to upsert
UpsertedRow(user, update, now) ==
    PreferenceRow(user, update.preferredCategories, update.preferredBrands,
                  OrNumber(update.priceRange[1], DefaultPriceMin),
                  OrNumber(update.priceRange[2], DefaultPriceMax),
                  update.preferredFeatures, now)

\* Mutant of Upsert: the row is inserted beside the user's earlier row.
Upsert_inserts(rows, row) == Append(rows, row)

\* upsert into user_preferences, where user_id is UNIQUE: the user's row is
\* replaced, or the row is added
Upsert(rows, row) ==
    IF \E i \in 1..Len(rows) : rows[i].user_id = row.user_id
    THEN [i \in 1..Len(rows) |-> IF rows[i].user_id = row.user_id THEN row ELSE rows[i]]
    ELSE Append(rows, row)

\* { ...existing, ...preferences, lastUpdated: new Date() }
Spread(existing, update, now) ==
    [f \in DOMAIN existing |->
        IF f = "lastUpdated" THEN <<"date", now>>
        ELSE IF f \in update.present THEN update[f] ELSE existing[f]]

\* updateUserPreferencesLocal: the new entries of localStorage
UpdateUserPreferencesLocal(entries, update, now) ==
    LET userId == IF update.userId = NoUserId THEN "anonymous" ELSE update.userId
        existing == GetUserPreferencesLocal(entries, userId, now)
    IN  SetItem(entries, userId, StringifyPreference(Spread(existing, update, now)))

\* getAllInteractions: [] when nothing is stored or JSON.parse rejects it,
\* else the stored list with its timestamps as Dates
GetAllInteractions(stored, parses) ==
    IF ~parses THEN <<>>
    ELSE [i \in 1..Len(stored) |-> [stored[i] EXCEPT !.timestamp = <<"date", @[2]>>]]

\* getUserInteractions
GetUserInteractions(stored, parses, userId) ==
    SelectSeq(GetAllInteractions(stored, parses), LAMBDA i : i.userId = userId)

Count(s, type) == Cardinality({i \in 1..Len(s) : s[i].interactionType = type})

\* interaction.metadata?.category || 'Unknown'
CategoryOf(metadata) ==
    IF \E m \in metadata : m[1] = "category"
    THEN (CHOOSE m \in metadata : m[1] = "category")[2]
    ELSE "Unknown"

\* i.metadata!.durationOnProduct, 0 when the key is absent (and filtered out)
DurationOf(metadata) ==
    IF \E m \in metadata : m[1] = "durationOnProduct"
    THEN (CHOOSE m \in metadata : m[1] = "durationOnProduct")[2]
    ELSE 0

RECURSIVE Sum(_)
Sum(s) == IF Len(s) = 0 THEN 0 ELSE s[1] + Sum(Tail(s))

\* the object getUserAnalytics returns, from its two locals; since is the
\* local weekAgo
UserAnalytics(interactions, preferences, since) ==
    LET views == SelectSeq(interactions, LAMBDA i : i.interactionType = "view")
        timed == SelectSeq(interactions, LAMBDA i : DurationOf(i.metadata) # 0)
        sessionDurations == [i \in 1..Len(timed) |-> DurationOf(timed[i].metadata)]
    IN  [totalInteractions |-> Len(interactions),
         interactionCounts |->
             [type \in {interactions[i].interactionType : i \in 1..Len(interactions)} |->
                 Count(interactions, type)],
         categoryViews |->
             [category \in {CategoryOf(views[i].metadata) : i \in 1..Len(views)} |->
                 Cardinality({i \in 1..Len(views) : CategoryOf(views[i].metadata) = category})],
         avgSessionDuration |->
             IF Len(sessionDurations) > 0
             THEN Sum(sessionDurations) \div Len(sessionDurations) ELSE 0,
         recentActivity |->
             Cardinality({i \in 1..Len(interactions) : interactions[i].timestamp[2] > since}),
         preferredCategories |-> preferences.preferredCategories,
         preferredBrands |-> preferences.preferredBrands,
         priceRange |-> preferences.priceRange,
         accountAge |-> preferences.lastUpdated]

----------------------------------------------------------------------------
\* InteractionTracker.getTrendingProducts: the weighted scores.

\* Mutant of Weight: every interaction weighs 1.
Weight_flat(type) == 1

\* weights[interaction_type] || 1
Weight(type) ==
    CASE type = "view" -> 1
      [] type = "like" -> 3
      [] type = "cart_add" -> 5
      [] type = "purchase" -> 10
      [] type = "wishlist_add" -> 2
      [] OTHER -> 1

\* .from('user_interactions').select(...).gte('created_at', weekAgo)
\*    .order('created_at', { ascending: false }), as seen by `user`
SelectRecent(rows, user, since) ==
    LET found == SelectSeq(Visible(rows, user), LAMBDA r : r.created_at >= since)
    IN  Sort(found, [i \in 1..Len(found) |-> 0 - found[i].created_at])

\* productScores after the forEach over rows: a Map lists its keys in the
\* order they were first set
RECURSIVE ProductScores(_, _)
ProductScores(rows, scores) ==
    IF Len(rows) = 0 THEN scores
    ELSE LET at == FindIndex(scores, rows[1].product_id)
             weight == Weight(rows[1].interaction_type)
         IN  ProductScores(Tail(rows),
                 IF at = 0
                 THEN Append(scores, [productId |-> rows[1].product_id, score |-> weight])
                 ELSE [scores EXCEPT ![at].score = @ + weight])

\* what getTrendingProducts returns for the rows read
TrendingScores(rows, limit) ==
    IF Len(rows) = 0 THEN <<>>
    ELSE Slice(SortByScore(ProductScores(rows, <<>>)), 0, limit)

----------------------------------------------------------------------------
\* InteractionTracker: one pending promise of getUserPreferences,
\* updateUserPreferences, getUserAnalytics or getTrendingProducts.
\*   op : the public operation the caller invoked;  fn : the async method running
\*   sent, replies : the requests made to the remote side, and how each ended

IdleTask ==
    [op |-> "", fn |-> "", pc |-> "idle", userId |-> NoUserId, update |-> NoUpdate,
     limit |-> 0, user |-> NoUser, row |-> NoRow, found |-> <<>>, sent |-> <<>>,
     replies |-> <<>>, settled |-> "none", result |-> Undefined]

\* a method is called and runs to its first await, request sent
StartTask(op, fn, userId, request) ==
    [IdleTask EXCEPT !.op = op, !.fn = fn, !.pc = "auth", !.userId = userId,
                     !.sent = <<request>>, !.settled = "pending"]

\* the caller invokes one operation at a time, once the promises of the
\* previous one have settled
AllSettled == \A t \in Tasks : tasks[t].pc \in {"idle", "done"}

\* getUserPreferences returns preferences; getUserAnalytics, which awaited
\* it, goes on to its own return
ReadReturns(task, reply, preferences) ==
    [task EXCEPT !.pc = "done", !.settled = "resolved",
                 !.replies = Append(@, reply),
                 !.result = IF task.fn = "getUserAnalytics"
                            THEN UserAnalytics(task.found, preferences, weekAgo)
                            ELSE preferences]

\* the catch block of getUserPreferences
ReadFallsBack(task) ==
    ReadReturns(task, "throw",
                GetUserPreferencesLocal(localPreferences, task.userId, nextEvent))

\* the next request of a task is sent, the previous one having been answered
Awaits(task, reply, at, request) ==
    [task EXCEPT !.pc = at, !.replies = Append(@, reply), !.sent = Append(@, request)]

\* updateUserPreferences or getTrendingProducts returns
TaskReturns(task, reply, value) ==
    [task EXCEPT !.pc = "done", !.settled = "resolved",
                 !.replies = Append(@, reply), !.result = value]

----------------------------------------------------------------------------
\* InteractionTracker: getUserPreferences, getUserAnalytics, exportUserData,
\* clearUserData, one action per segment between awaits.

trackVars == <<calls, nextEvent, inserts, history>>
storeVars == <<remoteInteractions, localInteractions, storedParses, weekAgo,
               remotePreferences, localPreferences>>

\* getUserPreferences is called and runs to await supabase.auth.getUser().
GetUserPreferences(userId) ==
    /\ UNCHANGED svcVars
    /\ AllSettled
    /\ tasks' = [t \in Tasks |->
                    IF t = 1
                    THEN StartTask("getUserPreferences", "getUserPreferences", userId,
                                   "auth.getUser")
                    ELSE IdleTask]
    /\ UNCHANGED <<trackVars, storeVars, exported>>

\* getUserAnalytics is called: it reads the local history, calls
\* getUserPreferences, which runs to its first await, and awaits it.
GetUserAnalytics(userId) ==
    /\ UNCHANGED svcVars
    /\ AllSettled
    /\ tasks' = [t \in Tasks |->
                    IF t = 1
                    THEN [StartTask("getUserAnalytics", "getUserAnalytics", userId,
                                    "auth.getUser")
                            EXCEPT !.found = GetUserInteractions(localInteractions,
                                                                 storedParses, userId)]
                    ELSE IdleTask]
    /\ UNCHANGED <<trackVars, storeVars, exported>>

\* exportUserData: synchronous; the promises of getUserPreferences and
\* getUserAnalytics are put into the returned object unawaited.
ExportUserData(userId) ==
    /\ UNCHANGED svcVars
    /\ AllSettled
    /\ tasks' = [t \in Tasks |->
                    IF t = 1
                    THEN StartTask("exportUserData", "getUserPreferences", userId,
                                   "auth.getUser")
                    ELSE [StartTask("exportUserData", "getUserAnalytics", userId,
                                    "auth.getUser")
                            EXCEPT !.found = GetUserInteractions(localInteractions,
                                                                 storedParses, userId)]]
    /\ exported' = [userId |-> userId,
                    interactions |-> GetUserInteractions(localInteractions, storedParses,
                                                         userId),
                    preferences |-> <<"promise", 1>>,
                    analytics |-> <<"promise", 2>>,
                    exportDate |-> <<"iso", nextEvent>>]
    /\ UNCHANGED <<trackVars, storeVars>>

\* Mutant of ClearUserData: the whole list of events is dropped.
ClearUserData_clearsAll(userId) ==
    /\ UNCHANGED svcVars
    /\ AllSettled
    /\ localPreferences' = RemoveItem(localPreferences, LocalKey(userId))
    /\ localInteractions' = <<>>
    /\ storedParses' = TRUE
    /\ UNCHANGED <<trackVars, remoteInteractions, weekAgo, remotePreferences, tasks,
                   exported>>

\* clearUserData: synchronous, on localStorage.
ClearUserData(userId) ==
    /\ UNCHANGED svcVars
    /\ AllSettled
    /\ localPreferences' = RemoveItem(localPreferences, LocalKey(userId))
    /\ localInteractions' =
           Stringify(SelectSeq(GetAllInteractions(localInteractions, storedParses),
                               LAMBDA i : i.userId # userId))
    /\ storedParses' = TRUE
    /\ UNCHANGED <<trackVars, remoteInteractions, weekAgo, remotePreferences, tasks,
                   exported>>

\* getUser() of getUserPreferences settles; with an identity to look up the
\* preference row is requested.
ReadAuthResponds(t, a) ==
    /\ UNCHANGED svcVars
    /\ tasks[t].pc = "auth"
    /\ tasks[t].fn \in {"getUserPreferences", "getUserAnalytics"}
    /\ tasks' = [tasks EXCEPT ![t] =
                    IF a = "throw" THEN ReadFallsBack(@)
                    ELSE IF TargetUserId(@.userId, a) = NoUserId
                    THEN ReadReturns(@, "ok", GetDefaultPreferences(nextEvent))
                    ELSE Awaits([@ EXCEPT !.user = a], "ok", "preferences",
                                "select user_preferences")]
    /\ UNCHANGED <<trackVars, storeVars, exported>>

\* The preference row query settles: data is the row, or null (with an
\* error, which is not looked at), or it throws; the history is requested.
PreferencesResponds(t, o) ==
    /\ UNCHANGED svcVars
    /\ tasks[t].pc = "preferences"
    /\ tasks' = [tasks EXCEPT ![t] =
                    IF o = "throw" THEN ReadFallsBack(@)
                    ELSE Awaits([@ EXCEPT !.row =
                                     IF o = "ok"
                                     THEN SelectPreferences(remotePreferences, tasks[t].user,
                                              TargetUserId(tasks[t].userId, tasks[t].user))
                                     ELSE NoRow],
                                o, "interactions", "select user_interactions")]
    /\ UNCHANGED <<trackVars, storeVars, exported>>

\* The history query settles; getUserPreferences returns.
InteractionsResponds(t, o) ==
    /\ UNCHANGED svcVars
    /\ tasks[t].pc = "interactions"
    /\ tasks' = [tasks EXCEPT ![t] =
                    IF o = "throw" THEN ReadFallsBack(@)
                    ELSE LET target == TargetUserId(@.userId, @.user)
                             rows == IF o = "ok"
                                     THEN SelectInteractions(remoteInteractions, @.user,
                                                             target)
                                     ELSE <<>>
                         IN  ReadReturns(@, o,
                                         ConvertPreferences(target, @.row, rows, nextEvent))]
    /\ UNCHANGED <<trackVars, storeVars, exported>>

----------------------------------------------------------------------------
\* InteractionTracker: updateUserPreferences and getTrendingProducts.

\* updateUserPreferences is called and runs to await supabase.auth.getUser().
UpdateUserPreferences(update) ==
    /\ UNCHANGED svcVars
    /\ AllSettled
    /\ tasks' = [t \in Tasks |->
                    IF t = 1
                    THEN [StartTask("updateUserPreferences", "updateUserPreferences",
                                    NoUserId, "auth.getUser")
                            EXCEPT !.update = update]
                    ELSE IdleTask]
    /\ UNCHANGED <<trackVars, storeVars, exported>>

\* getUser() of updateUserPreferences settles; with a user the upsert is sent.
UpdateAuthResponds(t, a) ==
    /\ UNCHANGED svcVars
    /\ tasks[t].pc = "auth"
    /\ tasks[t].fn = "updateUserPreferences"
    /\ CASE a = "throw" ->
              /\ localPreferences' =
                     UpdateUserPreferencesLocal(localPreferences, tasks[t].update, nextEvent)
              /\ tasks' = [tasks EXCEPT ![t] = TaskReturns(@, "throw", Undefined)]
         [] a = NoUser ->
              /\ tasks' = [tasks EXCEPT ![t] = TaskReturns(@, "ok", Undefined)]
              /\ UNCHANGED localPreferences
         [] OTHER ->
              /\ tasks' = [tasks EXCEPT ![t] =
                              Awaits([@ EXCEPT !.user = a], "ok", "upsert",
                                     "upsert user_preferences")]
              /\ UNCHANGED localPreferences
    /\ UNCHANGED <<trackVars, remoteInteractions, localInteractions, storedParses, weekAgo,
                   remotePreferences, exported>>

\* The upsert settles: applied, refused with an error, or thrown.  A refused
\* or thrown upsert changed nothing.
UpsertResponds(t, o) ==
    /\ UNCHANGED svcVars
    /\ tasks[t].pc = "upsert"
    /\ tasks' = [tasks EXCEPT ![t] = TaskReturns(@, o, Undefined)]
    /\ IF o = "ok"
       THEN /\ remotePreferences' =
                   Upsert(remotePreferences,
                          UpsertedRow(tasks[t].user, tasks[t].update, nextEvent))
            /\ UNCHANGED localPreferences
       ELSE /\ localPreferences' =
                   UpdateUserPreferencesLocal(localPreferences, tasks[t].update, nextEvent)
            /\ UNCHANGED remotePreferences
    /\ UNCHANGED <<trackVars, remoteInteractions, localInteractions, storedParses, weekAgo,
                   exported>>

\* The tracker's getTrendingProducts is called and runs to its await.
TrackerGetTrendingProducts(limit) ==
    /\ UNCHANGED svcVars
    /\ AllSettled
    /\ tasks' = [t \in Tasks |->
                    IF t = 1
                    THEN [StartTask("getTrendingProducts", "getTrendingProducts", NoUserId,
                                    "select user_interactions")
                            EXCEPT !.pc = "trending", !.limit = limit]
                    ELSE IdleTask]
    /\ UNCHANGED <<trackVars, storeVars, exported>>

\* Mutant of TrendingReadResponds: a thrown read is rethrown to the caller.
TrendingReadResponds_rethrows(t, o, session) ==
    /\ UNCHANGED svcVars
    /\ tasks[t].pc = "trending"
    /\ tasks' = [tasks EXCEPT ![t] =
                    IF o = "throw"
                    THEN [TaskReturns(@, o, <<>>) EXCEPT !.settled = "rejected",
                                                         !.user = session]
                    ELSE TaskReturns([@ EXCEPT !.user = session], o,
                             IF o = "ok"
                             THEN TrendingScores(SelectRecent(remoteInteractions, session,
                                                              weekAgo), @.limit)
                             ELSE <<>>)]
    /\ UNCHANGED <<trackVars, storeVars, exported>>

\* The read of the last seven days settles for the session it was made in:
\* rows, data: null with an error, or thrown.
TrendingReadResponds(t, o, session) ==
    /\ UNCHANGED svcVars
    /\ tasks[t].pc = "trending"
    /\ tasks' = [tasks EXCEPT ![t] =
                    TaskReturns([@ EXCEPT !.user = session], o,
                        IF o = "ok"
                        THEN TrendingScores(SelectRecent(remoteInteractions, session,
                                                         weekAgo), @.limit)
                        ELSE <<>>)]
    /\ UNCHANGED <<trackVars, storeVars, exported>>

----------------------------------------------------------------------------
\* Specifications.

InitService ==
    /\ userPreferences = NoPreference
    /\ maxRecommendations = 0
    /\ targetProduct = NoProduct
    /\ pc = "idle"
    /\ userAnalysis = NoAnalysis
    /\ contentRecommendations = <<>>
    /\ collaborativeRecommendations = <<>>
    /\ uniqueRecommendations = <<>>
    /\ combinedRecommendations = <<>>
    /\ result = <<>>
    /\ settled = "pending"
    /\ path = "none"
    /\ issued = <<>>
    /\ received = NoneReceived

NoEntries == [k \in {} |-> k]
NoExport == [userId |-> NoUserId, interactions |-> <<>>, preferences |-> <<>>,
             analytics |-> <<>>, exportDate |-> <<>>]

\* no call has been made
InitCalls ==
    /\ calls = [c \in Callers |-> IdleCall]
    /\ inserts = 0
    /\ history = <<>>
    /\ tasks = [t \in Tasks |-> IdleTask]
    /\ exported = NoExport

\* empty tables and an empty localStorage
InitStores ==
    /\ remoteInteractions = <<>>
    /\ localInteractions = <<>>
    /\ storedParses = TRUE
    /\ weekAgo = 0
    /\ remotePreferences = <<>>
    /\ localPreferences = NoEntries

InitTracker ==
    /\ InitCalls
    /\ InitStores
    /\ nextEvent = 0

\* The recommendation service, over every catalog.
Init ==
    /\ products \in Catalogs
    /\ InitService
    /\ InitTracker

Next ==
    \/ \E prefs \in Preferences, maxN \in 0..MaxCount : GenerateRecommendations(prefs, maxN)
    \/ \E r \in AnalysisResponses : AnalysisResponds(r)
    \/ \E r \in ArrayResponses(ContentEntries) : ContentResponds(r)
    \/ \E r \in ArrayResponses(CollaborativeEntries) : CollaborativeResponds(r)
    \/ \E r \in ArrayResponses(RankedEntries) : RankResponds(r)
    \/ \E maxN \in 0..MaxCount : GetTrendingProducts(maxN)
    \/ \E r \in ArrayResponses(TrendingEntries) : TrendingResponds(r)
    \/ \E target \in {P1, P4}, maxN \in 0..MaxCount : GetSimilarProducts(target, maxN)
    \/ \E r \in ArrayResponses(SimilarEntries) : SimilarResponds(r)

Spec == Init /\ [][Next]_vars

\* The interaction tracker, with a fixed catalog and an idle service.
InitTrackerSpec ==
    /\ products = <<P1, P2, P3, P4>>
    /\ InitService
    /\ InitTracker

NextTracker ==
    \/ \E c \in Callers, interaction \in Interactions : TrackInteraction(c, interaction)
    \/ \E c \in Callers, a \in {"throw", NoUser, "u1"} : AuthResponds(c, a)
    \/ \E c \in Callers, o \in {"ok", "error", "throw"} : InsertResponds(c, o)

SpecTracker == InitTrackerSpec /\ [][NextTracker]_vars

\* The local fallback store on its own, filled past its cap.
NextLocalCap == MirrorOne

SpecLocalCap == InitTrackerSpec /\ [][NextLocalCap]_vars

\* trackInteraction over a localStorage left by earlier sessions or other
\* scripts of the origin: its 'user_interactions' text may not parse.
InitStoredLocal ==
    /\ products = <<P1, P2, P3, P4>>
    /\ InitService
    /\ InitCalls
    /\ nextEvent = 0
    /\ remoteInteractions = <<>>
    /\ localInteractions = <<>>
    /\ storedParses \in BOOLEAN
    /\ weekAgo = 0
    /\ remotePreferences = <<>>
    /\ localPreferences = NoEntries

SpecStoredLocal == InitStoredLocal /\ [][NextTracker]_vars

\* The tracker's preference, analytics and privacy operations, over tables
\* and a localStorage that earlier sessions have written.
UserIds == {NoUserId, "u1", "u2"}
AuthReplies == {"throw", NoUser, "u1"}
Replies == {"ok", "error", "throw"}

SeededRows ==
    << InsertedRow("u1", TrackedInteraction("u1", 1, "view", "", {<<"category", "Electronics">>}),
                   1, 1),
       InsertedRow("u2", TrackedInteraction("u2", 3, "purchase", "", Undefined), 2, 2),
       InsertedRow("u1", TrackedInteraction("u1", 2, "purchase", "", Undefined), 3, 3) >>

SeededEvents ==
    TrackInteractionLocal(
        TrackInteractionLocal(
            TrackInteractionLocal(<<>>,
                TrackedInteraction("anonymous", 1, "view", "current_session",
                                   {<<"category", "Electronics">>}), 4, 4),
            TrackedInteraction("u1", 2, "purchase", "", Undefined), 5, 5),
        TrackedInteraction("u1", 3, "view", "", {<<"durationOnProduct", 30>>}), 6, 6)

SeededEntries ==
    {NoEntries} \cup {UpdateUserPreferencesLocal(NoEntries, update, 3) : update \in Updates}

InitPreferences ==
    /\ products = <<P1, P2, P3, P4>>
    /\ InitService
    /\ InitCalls
    /\ nextEvent = 6
    /\ weekAgo = 4
    /\ remoteInteractions = SeededRows
    /\ localInteractions = SeededEvents
    /\ storedParses = TRUE
    /\ remotePreferences \in {<<>>} \cup {<<UpsertedRow("u1", update, 2)>> : update \in Updates}
    /\ localPreferences \in SeededEntries

NextPreferences ==
    \/ \E userId \in UserIds : GetUserPreferences(userId)
    \/ \E userId \in UserIds : GetUserAnalytics(userId)
    \/ \E userId \in UserIds : ExportUserData(userId)
    \/ \E userId \in UserIds : ClearUserData(userId)
    \/ \E update \in Updates : UpdateUserPreferences(update)
    \/ \E t \in Tasks, a \in AuthReplies : ReadAuthResponds(t, a)
    \/ \E t \in Tasks, o \in Replies : PreferencesResponds(t, o)
    \/ \E t \in Tasks, o \in Replies : InteractionsResponds(t, o)
    \/ \E t \in Tasks, a \in AuthReplies : UpdateAuthResponds(t, a)
    \/ \E t \in Tasks, o \in Replies : UpsertResponds(t, o)

SpecPreferences == InitPreferences /\ [][NextPreferences]_vars

\* The tracker's getTrendingProducts, over every table of up to MaxRows
\* interactions and every age of its rows.
RowKinds ==
    { <<"u1", 1, "view">>, <<"u1", 1, "purchase">>, <<"u1", 2, "like">>,
      <<"u1", 2, "cart_add">>, <<"u1", 3, "wishlist_add">>, <<"u2", 3, "purchase">> }

\* the table holding kinds[1], kinds[2], ... in the order they were inserted
RowsOf(kinds) ==
    [i \in 1..Len(kinds) |->
        InsertedRow(kinds[i][1],
                    TrackedInteraction(kinds[i][1], kinds[i][2], kinds[i][3], "", Undefined),
                    i, i)]

InitTrending ==
    /\ products = <<P1, P2, P3, P4>>
    /\ InitService
    /\ InitCalls
    /\ \E kinds \in SeqsUpTo(RowKinds, MaxRows) :
          /\ remoteInteractions = RowsOf(kinds)
          /\ nextEvent = Len(kinds)
    /\ weekAgo \in 0..2
    /\ localInteractions = <<>>
    /\ storedParses = TRUE
    /\ remotePreferences = <<>>
    /\ localPreferences = NoEntries

NextTrending ==
    \/ \E limit \in 0..MaxLimit : TrackerGetTrendingProducts(limit)
    \/ \E t \in Tasks, o \in Replies, session \in {NoUser, "u1"} :
          TrendingReadResponds(t, o, session)

SpecTrending == InitTrending /\ [][NextTrending]_vars

\* clearUserData over every localStorage of up to MaxStored mirrored events
\* and the preference entries of earlier failed updates.
StoredKinds == { <<"anonymous", 1, "view">>, <<"u1", 2, "purchase">>, <<"u2", 3, "like">> }

\* localStorage['user_interactions'] after trackInteractionLocal has stored
\* kinds[1], kinds[2], ... in this order
RECURSIVE Mirrored(_)
Mirrored(kinds) ==
    IF Len(kinds) = 0 THEN <<>>
    ELSE LET n == Len(kinds)
         IN  TrackInteractionLocal(Mirrored(SubSeq(kinds, 1, n - 1)),
                 TrackedInteraction(kinds[n][1], kinds[n][2], kinds[n][3], "current_session",
                                    Undefined),
                 n, n)

\* the entries after none, one or both of the updates were mirrored
StoredEntries ==
    SeededEntries \cup
        {UpdateUserPreferencesLocal(UpdateUserPreferencesLocal(NoEntries, a, 1), b, 2) :
            a, b \in Updates}

ClearIds == {NoUserId, "anonymous", "u1", "u2"}

InitPrivacy ==
    /\ products = <<P1, P2, P3, P4>>
    /\ InitService
    /\ InitCalls
    /\ \E kinds \in SeqsUpTo(StoredKinds, MaxStored) :
          /\ localInteractions = Mirrored(kinds)
          /\ nextEvent = Len(kinds)
    /\ storedParses = TRUE
    /\ weekAgo = 0
    /\ remoteInteractions = <<>>
    /\ remotePreferences = <<>>
    /\ localPreferences \in StoredEntries

NextPrivacy == \E userId \in ClearIds : ClearUserData(userId)

SpecPrivacy == InitPrivacy /\ [][NextPrivacy]_vars

\* One session of a page: it tracks events, reads and updates preferences
\* on one tracker, awaiting each call before it makes the next, from empty
\* tables and an empty localStorage.
NoCallPending == \A c \in Callers : calls[c].pc \in {"idle", "done"}

SessionTrack(interaction) ==
    /\ AllSettled
    /\ NoCallPending
    /\ nextEvent < MaxSession
    /\ TrackInteraction(1, interaction)

SessionRead(userId) ==
    /\ NoCallPending
    /\ GetUserPreferences(userId)

SessionUpdate(update) ==
    /\ NoCallPending
    /\ UpdateUserPreferences(update)

SessionUsers == {NoUserId, "u1"}

\* the events of the session carry the id of the user who is signed in
SessionInteractions == {interaction \in Interactions : interaction.userId = "u1"}

NextSession ==
    \/ \E interaction \in SessionInteractions : SessionTrack(interaction)
    \/ \E userId \in SessionUsers : SessionRead(userId)
    \/ \E update \in Updates : SessionUpdate(update)
    \/ \E c \in Callers, a \in AuthReplies : AuthResponds(c, a)
    \/ \E c \in Callers, o \in Replies : InsertResponds(c, o)
    \/ \E t \in Tasks, a \in AuthReplies : ReadAuthResponds(t, a)
    \/ \E t \in Tasks, o \in Replies : PreferencesResponds(t, o)
    \/ \E t \in Tasks, o \in Replies : InteractionsResponds(t, o)
    \/ \E t \in Tasks, a \in AuthReplies : UpdateAuthResponds(t, a)
    \/ \E t \in Tasks, o \in Replies : UpsertResponds(t, o)

SpecSession == InitTrackerSpec /\ [][NextSession]_vars

\* The recommendation flow over a table holding up to MaxHistory
\* interactions of u1: the preferences getUserPreferences returned are
\* handed to generateRecommendations.
HistoryRows(n) ==
    [i \in 1..n |->
        InsertedRow("u1", TrackedInteraction("u1", 1 + (i % 2), "view", "test-session",
                                             Undefined),
                    i, i)]

InitHistory ==
    /\ products = <<P1, P2, P3, P4>>
    /\ InitService
    /\ InitCalls
    /\ \E n \in 0..MaxHistory :
          /\ remoteInteractions = HistoryRows(n)
          /\ nextEvent = n
    /\ weekAgo = 0
    /\ localInteractions = <<>>
    /\ storedParses = TRUE
    /\ remotePreferences = <<>>
    /\ localPreferences = NoEntries

\* generateRecommendations is called with what getUserPreferences resolved to
RecommendFromHistory(maxN) ==
    /\ tasks[1].op = "getUserPreferences"
    /\ tasks[1].pc = "done"
    /\ tasks[1].settled = "resolved"
    /\ GenerateRecommendations(tasks[1].result, maxN)

NextHistory ==
    \/ \E userId \in SessionUsers : GetUserPreferences(userId)
    \/ \E t \in Tasks, a \in AuthReplies : ReadAuthResponds(t, a)
    \/ \E t \in Tasks, o \in Replies : PreferencesResponds(t, o)
    \/ \E t \in Tasks, o \in Replies : InteractionsResponds(t, o)
    \/ \E maxN \in 0..MaxCount : RecommendFromHistory(maxN)

SpecHistory == InitHistory /\ [][NextHistory]_vars

----------------------------------------------------------------------------
\* Properties of the recommendation service (checked under Spec).

Range(s) == {s[i] : i \in 1..Len(s)}
Ids(recs) == {recs[i].productId : i \in 1..Len(recs)}
DistinctIds(recs) == \A i, j \in 1..Len(recs) : recs[i].productId = recs[j].productId => i = j
NonIncreasingScore(recs) == \A i, j \in 1..Len(recs) : i < j => recs[i].score >= recs[j].score
ProductOf(id) == CHOOSE p \in Range(products) : p.id = id
PipelineStages == {"analysis", "content", "collaborative", "rank"}

\* a generateRecommendations call has settled
GenerateSettled == pc = "done" /\ issued[1] = "analysis"

\* a model call of the pipeline threw, or building a prompt threw a TypeError
PipelineThrew ==
    \/ \E st \in PipelineStages : received[st] = "throw"
    \/ /\ received["analysis"] = "json"
       /\ ~({"topFeatures", "behaviorPatterns"} \subseteq userAnalysis.present)

C2_BoundedAndDistinct ==
    GenerateSettled => /\ Len(result) <= maxRecommendations
                       /\ DistinctIds(result)

\* C3: a stage that received plain prose falls back to its heuristic and
\* nothing rejects: the analysis is the fixed default (browsing, 5/5/5, the
\* first three preferred features, general_browsing), the candidate stages
\* yield [], merge-and-rank yields the de-duplicated candidates by
\* descending score, trending and similar yield their heuristic lists.
C3_ProseFallsBack ==
    /\ settled # "rejected"
    /\ received["analysis"] = "prose" =>
          /\ userAnalysis.present = AnalysisFields
          /\ userAnalysis.intent = "browsing"
          /\ userAnalysis.categoryStrength = 5
          /\ userAnalysis.brandLoyalty = 5
          /\ userAnalysis.priceSensitivity = 5
          /\ userAnalysis.behaviorPatterns = <<"general_browsing">>
          /\ Len(userAnalysis.topFeatures) = Min(3, Len(userPreferences.preferredFeatures))
          /\ \A i \in 1..Len(userAnalysis.topFeatures) :
                userAnalysis.topFeatures[i] = userPreferences.preferredFeatures[i]
    /\ received["content"] = "prose" => contentRecommendations = <<>>
    /\ received["collaborative"] = "prose" => collaborativeRecommendations = <<>>
    /\ received["rank"] = "prose" =>
          /\ path = "sorted"
          /\ NonIncreasingScore(combinedRecommendations)
          /\ DistinctIds(combinedRecommendations)
          /\ Range(combinedRecommendations) \subseteq
                Range(contentRecommendations) \cup Range(collaborativeRecommendations)
          /\ Ids(combinedRecommendations) =
                Ids(contentRecommendations) \cup Ids(collaborativeRecommendations)
    /\ received["trending"] = "prose" =>
          /\ path = "trending_fallback"
          /\ Len(result) = Min(maxRecommendations, Len(products))
          /\ \A i \in 1..Len(result) :
                /\ result[i].category = "trending"
                /\ result[i].productId \in {p.id : p \in Range(products)}
                /\ \A j \in 1..Len(result) :
                      i < j => TrendingKey(ProductOf(result[i].productId))
                                  >= TrendingKey(ProductOf(result[j].productId))
    /\ received["similar"] = "prose" =>
          /\ path = "similar_fallback"
          /\ \A i \in 1..Len(result) :
                /\ result[i].category = "similar"
                /\ result[i].productId # targetProduct.id
                /\ ProductOf(result[i].productId).category = targetProduct.category
                /\ \A j \in 1..Len(result) :
                      i < j => Abs(ProductOf(result[i].productId).price - targetProduct.price)
                                  <= Abs(ProductOf(result[j].productId).price
                                         - targetProduct.price)

\* C3 witness: every pipeline stage of one request received prose, for a
\* user with more than three preferred features and an interacted product.
C3_Witness ==
    /\ GenerateSettled
    /\ \A st \in PipelineStages : received[st] = "prose"
    /\ Len(userPreferences.preferredFeatures) > 3
    /\ path = "sorted"

\* C4: a model call that throws in stage 1, 2 or 3 is absorbed by that
\* stage: the later stages still run and the call does not end in the
\* catch-all fallback.  (Refuted: the awaits of the stages are outside their
\* try blocks, so the throw reaches the catch of generateRecommendations.)
C4_StageAbsorbsThrow ==
    (GenerateSettled /\ \E st \in {"analysis", "content", "collaborative"} :
                            received[st] = "throw")
        => /\ issued[Len(issued)] = "rank"
           /\ path # "fallback"

\* C5: for a user with an empty interaction history the content-based stage
\* returns [] without a model call, and every returned entry is one of the
\* collaborative stage's candidates unless the list is the fallback.
\* (Refuted on the re-ranked path.)
C5_EmptyHistory ==
    (GenerateSettled /\ userPreferences.interactionHistory = <<>>)
        => /\ "content" \notin Range(issued)
           /\ contentRecommendations = <<>>
           /\ \/ path = "fallback"
              \/ Ids(result) \subseteq Ids(collaborativeRecommendations)

\* C6: the merged set is content-based then collaborative, de-duplicated by
\* productId keeping the first occurrence; when the re-rank answer cannot be
\* parsed, stage 4 returns exactly that set by non-increasing score.
C6_MergeAndRank ==
    LET all == contentRecommendations \o collaborativeRecommendations
        unique == uniqueRecommendations
        firstAt(k) == CHOOSE i \in 1..Len(all) :
                         /\ all[i].productId = unique[k].productId
                         /\ \A j \in 1..(i - 1) : all[j].productId # unique[k].productId
    IN  /\ (issued # <<>> /\ issued[Len(issued)] = "rank") =>
              /\ DistinctIds(unique)
              /\ Ids(unique) = Ids(all)
              /\ \A k \in 1..Len(unique) : unique[k] = all[firstAt(k)]
              /\ \A k, l \in 1..Len(unique) : k < l => firstAt(k) < firstAt(l)
        /\ (GenerateSettled /\ received["rank"] \in {"prose", "badjson"}) =>
              /\ Len(combinedRecommendations) = Len(unique)
              /\ Range(combinedRecommendations) = Range(unique)
              /\ NonIncreasingScore(combinedRecommendations)

\* C6 witness: both stages proposed product 1, the re-rank answer did not
\* parse, and sorting by score reordered the merged set.
C6_Witness ==
    /\ GenerateSettled
    /\ received["rank"] = "badjson"
    /\ \E i \in 1..Len(contentRecommendations), j \in 1..Len(collaborativeRecommendations) :
          /\ contentRecommendations[i].productId = collaborativeRecommendations[j].productId
          /\ contentRecommendations[i].score # collaborativeRecommendations[j].score
    /\ Len(uniqueRecommendations) = 2
    /\ combinedRecommendations # uniqueRecommendations

\* the products the fallback may recommend: not interacted with, in a
\* preferred category, in stock or not
Eligible ==
    {p \in Range(products) :
        /\ p.id \notin {userPreferences.interactionHistory[i].productId :
                            i \in 1..Len(userPreferences.interactionHistory)}
        /\ p.category \in Range(userPreferences.preferredCategories)}

\* C7: the fallback list holds only catalog products the user has not
\* interacted with and whose category is preferred, by non-increasing rating
\* average, cut to maxCount (the best-rated ones), each scored rating*20 and
\* tagged 'fallback'; being out of stock excludes nothing.
C7_FallbackList ==
    (GenerateSettled /\ path = "fallback") =>
        /\ Len(result) = Min(maxRecommendations, Cardinality(Eligible))
        /\ DistinctIds(result)
        /\ \A i \in 1..Len(result) :
              /\ result[i].productId \in {p.id : p \in Eligible}
              /\ result[i].score * 10 = ProductOf(result[i].productId).ratings.average10 * 20
              /\ result[i].category = "fallback"
        /\ \A i, j \in 1..Len(result) :
              i < j => ProductOf(result[i].productId).ratings.average10
                          >= ProductOf(result[j].productId).ratings.average10
        /\ \A p \in Eligible : p.id \notin Ids(result) =>
              \A i \in 1..Len(result) :
                  ProductOf(result[i].productId).ratings.average10 >= p.ratings.average10

\* C7 witness: a fallback list cut to maxCount that holds an out-of-stock
\* product, for a user with an interacted product and a non-preferred category
\* in the catalog.
C7_Witness ==
    /\ GenerateSettled
    /\ path = "fallback"
    /\ Len(result) = 2
    /\ Cardinality(Eligible) > maxRecommendations
    /\ \E i \in 1..Len(result) : ~ProductOf(result[i].productId).inStock
    /\ \E p \in Range(products) : p.id \in Ids(userPreferences.interactionHistory)

----------------------------------------------------------------------------
\* Properties of the service's two heuristic fallbacks (checked under Spec).

NonJsonKinds == {"throw", "prose", "badjson"}

\* the service's getTrendingProducts has settled after a model call that
\* threw or whose text held no JSON array that parses
TrendingFellBack ==
    pc = "done" /\ issued = <<"trending">> /\ received["trending"] \in NonJsonKinds

\* 1-based place of a product id in a list of recommendations, 0 when absent
PlaceOf(recs, id) == FindIndex(recs, id)

\* C17: when the model call of the service's getTrendingProducts fails or is
\* unparseable, the result is the catalog by non-increasing
\* rating_average * ln(rating_count + 1), cut to maxCount and tagged
\* 'trending'; a product with average 4.0 and count 100 ranks above one with
\* average 4.5 and count 5.
C17_TrendingFallback ==
    TrendingFellBack =>
        /\ settled = "resolved"
        /\ Len(result) = Min(maxRecommendations, Len(products))
        /\ DistinctIds(result)
        /\ \A i \in 1..Len(result) :
              /\ result[i].productId \in {p.id : p \in Range(products)}
              /\ result[i].category = "trending"
        /\ \A i, j \in 1..Len(result) :
              i < j => TrendingKey(ProductOf(result[i].productId))
                          >= TrendingKey(ProductOf(result[j].productId))
        /\ \A p \in Range(products) : p.id \notin Ids(result) =>
              \A i \in 1..Len(result) :
                  TrendingKey(ProductOf(result[i].productId)) >= TrendingKey(p)
        /\ \A a, b \in Range(products) :
              /\ a.ratings = [average10 |-> 40, count |-> 100]
              /\ b.ratings = [average10 |-> 45, count |-> 5]
              /\ b.id \in Ids(result)
              => /\ a.id \in Ids(result)
                 /\ PlaceOf(result, a.id) < PlaceOf(result, b.id)

\* the model call threw over a catalog of the 4.0 / 100 product and the
\* 4.5 / 5 product: the former is returned first
C17_Witness ==
    /\ TrendingFellBack
    /\ received["trending"] = "throw"
    /\ path = "trending_fallback"
    /\ Len(products) = 2
    /\ Len(result) = 2
    /\ ProductOf(result[1].productId).ratings = [average10 |-> 40, count |-> 100]
    /\ ProductOf(result[2].productId).ratings = [average10 |-> 45, count |-> 5]

\* the service's getSimilarProducts has settled after a model call that
\* threw or whose text held no JSON array that parses
SimilarFellBack ==
    pc = "done" /\ issued = <<"similar">> /\ received["similar"] \in NonJsonKinds

\* the products of the target's category other than the target
Candidates ==
    {p \in Range(products) :
        p.category = targetProduct.category /\ p.id # targetProduct.id}

PriceDiff(id) == Abs(ProductOf(id).price - targetProduct.price)

\* C18: when the model call of getSimilarProducts fails or is unparseable,
\* the result holds only products of the target's category other than the
\* target, by non-decreasing absolute price difference, cut to maxCount,
\* each scored 80 - |priceDiff| / 10 with no clamping; for a $100 target the
\* $90 candidate (79) ranks above the $150 candidate (75).
C18_SimilarFallback ==
    SimilarFellBack =>
        /\ settled = "resolved"
        /\ Len(result) = Min(maxRecommendations, Cardinality(Candidates))
        /\ DistinctIds(result)
        /\ \A i \in 1..Len(result) :
              /\ result[i].productId \in {p.id : p \in Candidates}
              /\ result[i].score * 10 = 800 - PriceDiff(result[i].productId)
              /\ result[i].category = "similar"
        /\ \A i, j \in 1..Len(result) :
              i < j => PriceDiff(result[i].productId) <= PriceDiff(result[j].productId)
        /\ \A p \in Candidates : p.id \notin Ids(result) =>
              \A i \in 1..Len(result) : PriceDiff(result[i].productId) <= PriceDiff(p.id)
        /\ \A a, b \in Candidates :
              /\ targetProduct.price = 100
              /\ a.price = 90
              /\ b.price = 150
              /\ b.id \in Ids(result)
              => /\ PlaceOf(result, a.id) # 0
                 /\ PlaceOf(result, a.id) < PlaceOf(result, b.id)
                 /\ result[PlaceOf(result, a.id)].score = 79
                 /\ result[PlaceOf(result, b.id)].score = 75

\* the model answered prose for the $100 target: the $90 candidate comes
\* back with 79 before the $150 candidate with 75, the book is left out
C18_Witness ==
    /\ SimilarFellBack
    /\ received["similar"] = "prose"
    /\ path = "similar_fallback"
    /\ targetProduct.price = 100
    /\ Len(result) = 2
    /\ ProductOf(result[1].productId).price = 90
    /\ result[1].score = 79
    /\ ProductOf(result[2].productId).price = 150
    /\ result[2].score = 75
    /\ \E p \in Range(products) : p.category # targetProduct.category

\* C21: no operation of the recommendation service (generateRecommendations,
\* getTrendingProducts, getSimilarProducts, on the model path or on a
\* fallback path) changes the contents or the order of the products array
\* the caller passed in.  (Refuted: the trending fallback sorts the caller's
\* array in place.)
C21_CatalogUnchanged == [][products' = products]_vars

\* place of a stage in the pipeline of generateRecommendations
StageOrder(stage) ==
    CASE stage = "analysis" -> 1
      [] stage = "content" -> 2
      [] stage = "collaborative" -> 3
      [] stage = "rank" -> 4
      [] OTHER -> 0

\* the model calls of the current request that have not been answered
Outstanding == {i \in 1..Len(issued) : received[issued[i]] = "none"}

\* C22: within one generateRecommendations call the model calls are issued
\* in the order analysis, content-based, collaborative, merge-and-rank, each
\* only after the previous one was answered: at most one is outstanding at
\* any time (the one the call is suspended at) and at most four are made.
C22_SequentialStages ==
    (issued # <<>> /\ issued[1] = "analysis") =>
        /\ Len(issued) <= 4
        /\ \A i \in 1..Len(issued) : issued[i] \in PipelineStages
        /\ \A i, j \in 1..Len(issued) :
              i < j => StageOrder(issued[i]) < StageOrder(issued[j])
        /\ Cardinality(Outstanding) <= 1
        /\ \A i \in Outstanding : i = Len(issued) /\ pc = issued[i]
        /\ pc = "done" <=> Outstanding = {}

\* C22 witness: a request made all four model calls, one after another, and
\* returned the re-ranked list.
C22_Witness ==
    /\ GenerateSettled
    /\ issued = <<"analysis", "content", "collaborative", "rank">>
    /\ Outstanding = {}
    /\ path = "reranked"

----------------------------------------------------------------------------
\* Properties of the interaction tracker.

InLocal(n) == Cardinality({i \in 1..Len(localInteractions) : localInteractions[i].id = n})
InRemote(n) == Cardinality({i \in 1..Len(remoteInteractions) : remoteInteractions[i].id = n})

\* C8 (SpecTracker): trackInteraction without an authenticated user returns
\* normally, sends no insert and leaves both stores alone: such an event is
\* in neither store, and inserts were sent only for events with a user.
C8_NoUserNoOp ==
    /\ \A n \in 1..Len(history) :
          history[n] = "no_user" => InRemote(n) = 0 /\ InLocal(n) = 0
    /\ inserts = Cardinality({n \in 1..Len(history) :
                     history[n] \in {"insert", "stored", "insert_error", "insert_threw"}})
    /\ \A c \in Callers : calls[c].pc = "done" => calls[c].settled = "resolved"

\* C8 witness: an event was dropped for lack of a user after an earlier one
\* had been mirrored locally.
C8_Witness ==
    /\ Len(history) >= 2
    /\ history[1] = "insert_error"
    /\ history[2] = "no_user"
    /\ Len(localInteractions) = 1

\* C9 (SpecTracker): with an authenticated user the remote insert comes
\* first; an event whose insert succeeded is in the remote store once and not
\* in the local one; an event whose insert returned an error or threw is in
\* the local store once and not in the remote one; while the insert is
\* pending the event is in neither.
C9_ExactlyOneStore ==
    \A n \in 1..Len(history) :
        /\ history[n] = "insert" => InRemote(n) = 0 /\ InLocal(n) = 0
        /\ history[n] = "stored" => InRemote(n) = 1 /\ InLocal(n) = 0
        /\ history[n] \in {"insert_error", "insert_threw"} =>
              InRemote(n) = 0 /\ InLocal(n) = 1

\* C9 witness: one event stored remotely, one mirrored after a returned
\* error, one mirrored after a thrown exception.
C9_Witness ==
    /\ \E n \in 1..Len(history) : history[n] = "stored"
    /\ \E n \in 1..Len(history) : history[n] = "insert_error"
    /\ \E n \in 1..Len(history) : history[n] = "insert_threw"

\* C10 (SpecLocalCap): the local store never holds more than 1000 events,
\* and holds the most recently mirrored ones in the order they were mirrored.
C10_LocalFifo ==
    /\ Len(localInteractions) = Min(nextEvent, LocalCap)
    /\ \A i \in 1..Len(localInteractions) :
          localInteractions[i].id = nextEvent - Len(localInteractions) + i

\* C10 witness: after 1001 events exactly 1000 are stored and the first is gone.
C10_Witness ==
    /\ nextEvent = LocalCap + 1
    /\ Len(localInteractions) = LocalCap
    /\ localInteractions[1].id = 2
    /\ localInteractions[LocalCap].id = LocalCap + 1

\* C23 (SpecTracker): the tracker's session identifier is fixed at
\* construction; every event the tracker records, whether as a row of the
\* remote table or as an entry of the local fallback store, carries it,
\* whatever sessionId the caller put into the event.
C23_SessionIdentifier ==
    /\ \A i \in 1..Len(remoteInteractions) : remoteInteractions[i].session_id = SessionId
    /\ \A i \in 1..Len(localInteractions) : localInteractions[i].sessionId = SessionId
    /\ \A interaction \in Interactions : interaction.sessionId # SessionId

\* C23 witness: an event handed over with sessionId 'current_session' is in
\* the remote table and one handed over with 'test-session' is in the local
\* store, both under the tracker's identifier.
C23_Witness ==
    /\ \E i \in 1..Len(remoteInteractions) :
          /\ remoteInteractions[i].product_id = 1
          /\ remoteInteractions[i].session_id = SessionId
    /\ \E i \in 1..Len(localInteractions) :
          /\ localInteractions[i].productId = 2
          /\ localInteractions[i].sessionId = SessionId
    /\ \E a, b \in Interactions :
          /\ a.productId = 1 /\ a.sessionId = "current_session"
          /\ b.productId = 2 /\ b.sessionId = "test-session"

\* C25 (SpecTracker): an event mirrored into the local fallback store after
\* its insert failed is stored under the identity the insert used, the
\* authenticated user's id, so that getUserInteractions of that id holds it.
\* (Refuted: the local entry takes the userId the caller put into the event.)
C25_MirroredUnderAuthUser ==
    \A c \in Callers :
        (calls[c].pc = "done"
            /\ history[calls[c].event] \in {"insert_error", "insert_threw"}) =>
            /\ \E i \in 1..Len(localInteractions) :
                  /\ localInteractions[i].id = calls[c].event
                  /\ localInteractions[i].userId = calls[c].user
            /\ \E i \in 1..Len(GetUserInteractions(localInteractions, storedParses,
                                                   calls[c].user)) :
                  GetUserInteractions(localInteractions, storedParses,
                                      calls[c].user)[i].id = calls[c].event

\* the step in which call c handles a failure of the remote side by
\* mirroring its event
Mirrors(c) ==
    /\ calls[c].pc \in {"auth", "insert"}
    /\ calls'[c].pc = "done"
    /\ history'[calls[c].event] \in {"auth_threw", "insert_error", "insert_threw"}

\* C29 (SpecTracker): for every interleaving of trackInteraction calls in
\* flight together, each event whose remote request failed is in the local
\* fallback store exactly once, none is lost or duplicated, and the stored
\* order is the order in which the failures were handled: handling a failure
\* appends that call's event to the list as it is at that moment, and
\* nothing else changes the list.
C29_ConcurrentMirror ==
    [][/\ \A c \in Callers :
             Mirrors(c) =>
                 /\ Len(localInteractions') = Len(localInteractions) + 1
                 /\ SubSeq(localInteractions', 1, Len(localInteractions)) = localInteractions
                 /\ localInteractions'[Len(localInteractions')].id = calls[c].event
                 /\ localInteractions'[Len(localInteractions')].productId =
                        calls[c].interaction.productId
       /\ (\A c \in Callers : ~Mirrors(c)) => localInteractions' = localInteractions
       /\ \A n \in 1..Len(history') :
             Cardinality({i \in 1..Len(localInteractions') : localInteractions'[i].id = n})
                 = IF history'[n] \in {"auth_threw", "insert_error", "insert_threw"}
                   THEN 1 ELSE 0]_vars

\* C29 witness: two calls were waiting for their inserts together; the
\* second call's failure was handled first, so its event is stored first.
C29_Witness ==
    /\ Len(history) >= 2
    /\ history[1] \in {"insert_error", "insert_threw"}
    /\ history[2] \in {"insert_error", "insert_threw"}
    /\ Len(localInteractions) = 2
    /\ localInteractions[1].id = 2
    /\ localInteractions[2].id = 1

----------------------------------------------------------------------------
\* Properties of the tracker over any stored text (checked under SpecStoredLocal).

\* C11: trackInteraction resolves and never rejects, whatever the remote
\* store does and whatever localStorage['user_interactions'] holds: the local
\* fallback step never fails.
C11_NeverRejects ==
    \A c \in Callers : calls[c].pc = "done" => calls[c].settled = "resolved"

----------------------------------------------------------------------------
\* Properties of the tracker's preference operations (checked under SpecPreferences).

\* a remote request of the task threw, or came back with an error
RemoteFailed(task) == \E i \in 1..Len(task.replies) : task.replies[i] \in {"error", "throw"}

\* a remote request of the task threw
RemoteThrew(task) == \E i \in 1..Len(task.replies) : task.replies[i] = "throw"

\* the step in which a getUserPreferences call, made directly, settles
ReadSettles(t) ==
    /\ tasks[t].pc # "done"
    /\ tasks'[t].pc = "done"
    /\ tasks'[t].op = "getUserPreferences"

\* C12: whenever a remote read of getUserPreferences fails (thrown exception,
\* or an error returned by the preference-row or the interaction query) the
\* value returned is the one read from the local fallback store.
C12_DegradesToLocal ==
    [][\A t \in Tasks :
          ReadSettles(t) /\ RemoteFailed(tasks'[t]) =>
              /\ tasks'[t].settled = "resolved"
              /\ tasks'[t].result =
                     GetUserPreferencesLocal(localPreferences, tasks[t].userId, nextEvent)]_vars

\* a getUserPreferences call has settled
ReadDone(t) == tasks[t].fn = "getUserPreferences" /\ tasks[t].pc = "done"

UpdateSettles(t) ==
    /\ tasks[t].pc # "done"
    /\ tasks'[t].pc = "done"
    /\ tasks'[t].fn = "updateUserPreferences"

\* how the last request of a task ended
LastReply(task) == task.replies[Len(task.replies)]

AtMostOneRow(rows) ==
    \A i, j \in 1..Len(rows) : rows[i].user_id = rows[j].user_id => i = j

\* C14: updateUserPreferences upserts the remote preference row keyed by the
\* authenticated user's identity, so that the table never holds two rows of
\* one user; when the upsert fails (returned error or thrown exception) the
\* update is mirrored to the local fallback store and the table is as it
\* was; when it succeeds the local store is unchanged.
C14_UpsertOrMirror ==
    [][/\ AtMostOneRow(remotePreferences')
       /\ \A t \in Tasks :
             UpdateSettles(t) /\ tasks[t].pc = "upsert" =>
                 LET update == tasks[t].update
                     key == IF update.userId = NoUserId THEN "anonymous" ELSE update.userId
                 IN  IF LastReply(tasks'[t]) = "ok"
                     THEN /\ localPreferences' = localPreferences
                          /\ \E i \in 1..Len(remotePreferences') :
                                /\ remotePreferences'[i] =
                                       UpsertedRow(tasks[t].user, update, nextEvent)
                                /\ \A j \in 1..Len(remotePreferences) :
                                      remotePreferences[j].user_id # tasks[t].user =>
                                          remotePreferences'[j] = remotePreferences[j]
                          /\ Len(remotePreferences') =
                                 Len(SelectSeq(remotePreferences,
                                               LAMBDA r : r.user_id # tasks[t].user)) + 1
                     ELSE /\ remotePreferences' = remotePreferences
                          /\ key \in DOMAIN localPreferences'
                          /\ \A f \in update.present :
                                localPreferences'[key][f] = update[f]
                          /\ \A k \in DOMAIN localPreferences \ {key} :
                                /\ k \in DOMAIN localPreferences'
                                /\ localPreferences'[k] = localPreferences[k]]_vars

\* u1's upsert of ['Books'] came back with an error: the table keeps u1's
\* earlier row and the update sits in the local entry
C14_Witness ==
    /\ tasks[1].fn = "updateUserPreferences"
    /\ tasks[1].pc = "done"
    /\ tasks[1].user = "u1"
    /\ tasks[1].replies = <<"ok", "error">>
    /\ Len(remotePreferences) = 1
    /\ remotePreferences[1].user_id = "u1"
    /\ remotePreferences[1].preferred_categories = <<"Electronics">>
    /\ "u1" \in DOMAIN localPreferences
    /\ localPreferences["u1"].preferredCategories = <<"Books">>

----------------------------------------------------------------------------
\* Properties of the tracker's getTrendingProducts (checked under SpecTrending).

\* a call of the tracker's getTrendingProducts has settled
TrendingDone(t) == tasks[t].fn = "getTrendingProducts" /\ tasks[t].pc = "done"

\* the interactions of the last seven days that the call's session may read
ReadRows(t) ==
    {i \in 1..Len(remoteInteractions) :
        /\ remoteInteractions[i].user_id = tasks[t].user
        /\ remoteInteractions[i].created_at >= weekAgo}

Typed(t, product, type) ==
    Cardinality({i \in ReadRows(t) :
                    /\ remoteInteractions[i].product_id = product
                    /\ remoteInteractions[i].interaction_type = type})

\* view = 1, like = 3, wishlist_add = 2, cart_add = 5, purchase = 10
WeightedSum(t, product) ==
    Typed(t, product, "view") + 3 * Typed(t, product, "like")
        + 2 * Typed(t, product, "wishlist_add") + 5 * Typed(t, product, "cart_add")
        + 10 * Typed(t, product, "purchase")

ReadProducts(t) == {remoteInteractions[i].product_id : i \in ReadRows(t)}

\* C15: the tracker's getTrendingProducts(limit) returns at most limit
\* entries, one per distinct product id, each product's score being the sum
\* of the weights view=1, like=3, wishlist_add=2, cart_add=5, purchase=10
\* over its interactions of the last seven days, in non-increasing score
\* order: the top limit products by score.
C15_TopByWeightedScore ==
    \A t \in Tasks :
        TrendingDone(t) /\ LastReply(tasks[t]) = "ok" =>
            LET returned == tasks[t].result IN
            /\ Len(returned) <= tasks[t].limit
            /\ DistinctIds(returned)
            /\ NonIncreasingScore(returned)
            /\ \A i \in 1..Len(returned) :
                  /\ returned[i].productId \in ReadProducts(t)
                  /\ returned[i].score = WeightedSum(t, returned[i].productId)
            /\ \A product \in ReadProducts(t) \ Ids(returned) :
                  /\ Len(returned) = tasks[t].limit
                  /\ \A i \in 1..Len(returned) :
                        returned[i].score >= WeightedSum(t, product)

\* limit 1 over a view and a purchase of product 1 and a like of another
\* product: product 1 is returned with score 11, the other is cut off
C15_Witness ==
    /\ TrendingDone(1)
    /\ LastReply(tasks[1]) = "ok"
    /\ tasks[1].limit = 1
    /\ Len(tasks[1].result) = 1
    /\ tasks[1].result[1].productId = 1
    /\ tasks[1].result[1].score = 11
    /\ ReadProducts(1) = {1, 2}
    /\ Cardinality(ReadRows(1)) < Len(remoteInteractions)

\* C16: the tracker's getTrendingProducts never throws: when the remote read
\* fails (thrown, or data: null with an error) or yields no interactions it
\* returns the empty sequence.
C16_EmptyOnFailure ==
    \A t \in Tasks :
        TrendingDone(t) =>
            /\ tasks[t].settled = "resolved"
            /\ LastReply(tasks[t]) \in {"error", "throw"} \/ ReadRows(t) = {} =>
                   tasks[t].result = <<>>

\* the read threw over a table with rows to return: [] was returned
C16_Witness ==
    /\ TrendingDone(1)
    /\ LastReply(tasks[1]) = "throw"
    /\ tasks[1].settled = "resolved"
    /\ tasks[1].result = <<>>
    /\ tasks[1].limit > 0
    /\ ReadRows(1) # {}

\* the requests a task has made to the tables of the remote store
TableRequests(task) == {i \in 1..Len(task.sent) : task.sent[i] # "auth.getUser"}

\* the step in which a getUserAnalytics call, made directly, settles
AnalyticsSettles(t) ==
    /\ tasks[t].pc # "done"
    /\ tasks'[t].pc = "done"
    /\ tasks'[t].op = "getUserAnalytics"

\* C19: getUserAnalytics(userId) is a local-only aggregate: during the call
\* no request is made to the remote store, and every field of its result is
\* computed from the local fallback store alone.
C19_AnalyticsLocalOnly ==
    [][\A t \in Tasks :
          /\ tasks'[t].op = "getUserAnalytics" => TableRequests(tasks'[t]) = {}
          /\ AnalyticsSettles(t) =>
                tasks'[t].result =
                    UserAnalytics(GetUserInteractions(localInteractions, storedParses,
                                                      tasks[t].userId),
                                  GetUserPreferencesLocal(localPreferences, tasks[t].userId,
                                                          nextEvent),
                                  weekAgo)]_vars

\* C20: clearUserData and exportUserData operate solely on the local
\* fallback store: neither reads from, writes to or deletes from the remote
\* store, so the remote rows are the same before and after either call.
C20_PrivacyLocalOnly ==
    [][/\ \A t \in Tasks :
             tasks'[t].op = "exportUserData" => TableRequests(tasks'[t]) = {}
       /\ (\/ \E userId \in UserIds : ClearUserData(userId) \/ ExportUserData(userId)
           \/ \E t \in Tasks : tasks[t].op = "exportUserData" /\ tasks'[t].pc # tasks[t].pc)
          => UNCHANGED <<remoteInteractions, remotePreferences>>]_vars

----------------------------------------------------------------------------
\* Properties of clearUserData (checked under SpecPrivacy).

\* C24: clearUserData(userId) removes from the local fallback store exactly
\* the events whose userId equals the argument, and the preference entry
\* stored for that user (under 'anonymous' for an empty userId); the other
\* events keep their content and their order, the other entries are as they
\* were, and getUserInteractions(userId) is empty afterwards.
C24_ClearScope ==
    [][\A userId \in ClearIds :
          ClearUserData(userId) =>
              /\ localInteractions' =
                     SelectSeq(localInteractions, LAMBDA i : i.userId # userId)
              /\ \A i \in 1..Len(localInteractions') : localInteractions'[i].userId # userId
              /\ DOMAIN localPreferences' = DOMAIN localPreferences \ {LocalKey(userId)}
              /\ \A k \in DOMAIN localPreferences' : localPreferences'[k] = localPreferences[k]
              /\ GetUserInteractions(localInteractions', storedParses', userId) = <<>>
              /\ \A other \in ClearIds \ {userId} :
                    GetUserInteractions(localInteractions', storedParses', other) =
                        GetUserInteractions(localInteractions, storedParses, other)]_vars

\* C24 witness: u1's event, stored between an anonymous event and one of u2,
\* and u1's preference entry are gone; the two other events and the
\* 'anonymous' entry remain.
C24_Witness ==
    /\ nextEvent = 3
    /\ Len(localInteractions) = 2
    /\ localInteractions[1].id = 1 /\ localInteractions[1].userId = "anonymous"
    /\ localInteractions[2].id = 3 /\ localInteractions[2].userId = "u2"
    /\ DOMAIN localPreferences = {"anonymous"}
    /\ GetUserInteractions(localInteractions, storedParses, "u1") = <<>>

----------------------------------------------------------------------------
\* Properties of the degraded preference path (checked under SpecPreferences).

\* the step in which updateUserPreferences, called by an authenticated
\* user, mirrors the update because the upsert failed
UpdateMirrors(t) ==
    /\ UpdateSettles(t)
    /\ tasks[t].pc = "upsert"
    /\ LastReply(tasks'[t]) \in {"error", "throw"}

\* C27: when updateUserPreferences(p) of the authenticated user u is
\* mirrored locally because the upsert failed, the local entry that a
\* degraded getUserPreferences(u) reads holds the categories, brands, price
\* range and features of p: write and read use the same per-user key.
\* (Refuted: the write is keyed by p.userId, 'anonymous' when p has none.)
C27_LocalRoundTrip ==
    [][\A t \in Tasks :
          UpdateMirrors(t) =>
              LET update == tasks[t].update
                  read == GetUserPreferencesLocal(localPreferences', tasks[t].user, nextEvent)
              IN  \A f \in update.present \ {"userId"} : read[f] = update[f]]_vars

----------------------------------------------------------------------------
\* Properties of one session over both stores (checked under SpecSession).

\* C26: after trackInteraction has mirrored an event into the local fallback
\* store, a later getUserPreferences call for the event's user that degrades
\* to the local store returns the event in interactionHistory.  (Refuted:
\* the degraded read returns the preference entry, or the defaults, and never
\* looks at the mirrored events.)
C26_DegradedReadYourWrites ==
    [][\A t \in Tasks :
          ReadSettles(t) /\ RemoteThrew(tasks'[t]) =>
              \A i \in 1..Len(localInteractions) :
                  localInteractions[i].userId = tasks[t].userId =>
                      \E j \in 1..Len(tasks'[t].result.interactionHistory) :
                          tasks'[t].result.interactionHistory[j].id =
                              localInteractions[i].id]_vars

\* the session's user and the identity a getUserPreferences call read for
ReadTarget(task) == TargetUserId(task.userId, task.user)

\* C30: the two stores are never reconciled.  The table of interactions
\* only ever gains the row of the event a trackInteraction call is inserting,
\* which is not in the local store, and no event is ever in both stores; the
\* table of preferences only ever changes by the upsert of the update a call
\* was handed, whose row carries nothing of the local entries; and a
\* getUserPreferences call whose remote reads all succeeded returns the
\* table's rows only: no mirrored event, and the preference row's sets (empty
\* when there is no row) whatever the local entry holds.
C30_NeverReconciled ==
    [][/\ remoteInteractions' # remoteInteractions =>
             \E c \in Callers :
                 /\ calls[c].pc = "insert"
                 /\ Len(remoteInteractions') = Len(remoteInteractions) + 1
                 /\ SubSeq(remoteInteractions', 1, Len(remoteInteractions)) = remoteInteractions
                 /\ remoteInteractions'[Len(remoteInteractions')].id = calls[c].event
                 /\ remoteInteractions'[Len(remoteInteractions')].product_id =
                        calls[c].interaction.productId
                 /\ InLocal(calls[c].event) = 0
       /\ \A i \in 1..Len(remoteInteractions'), j \in 1..Len(localInteractions') :
             remoteInteractions'[i].id # localInteractions'[j].id
       /\ remotePreferences' # remotePreferences =>
             \E t \in Tasks :
                 /\ tasks[t].pc = "upsert"
                 /\ \E i \in 1..Len(remotePreferences') :
                       /\ remotePreferences'[i].user_id = tasks[t].user
                       /\ remotePreferences'[i].preferred_categories =
                              tasks[t].update.preferredCategories
                       /\ remotePreferences'[i].preferred_brands =
                              tasks[t].update.preferredBrands
                       /\ remotePreferences'[i].preferred_features =
                              tasks[t].update.preferredFeatures
                       /\ \A k \in 1..Len(remotePreferences') :
                             k # i => /\ k <= Len(remotePreferences)
                                      /\ remotePreferences'[k] = remotePreferences[k]
       /\ \A t \in Tasks :
             ReadSettles(t) /\ ~RemoteFailed(tasks'[t]) /\ Len(tasks'[t].sent) = 3 =>
                 LET returned == tasks'[t].result
                     target == ReadTarget(tasks'[t])
                     mine == {i \in 1..Len(remoteInteractions) :
                                 /\ remoteInteractions[i].user_id = target
                                 /\ remoteInteractions[i].user_id = tasks'[t].user}
                     row == {i \in 1..Len(remotePreferences) :
                                /\ remotePreferences[i].user_id = target
                                /\ remotePreferences[i].user_id = tasks'[t].user}
                 IN  /\ {returned.interactionHistory[i].id :
                            i \in 1..Len(returned.interactionHistory)}
                            = {remoteInteractions[i].id : i \in mine}
                     /\ Len(returned.interactionHistory) = Cardinality(mine)
                     /\ \A i \in 1..Len(returned.interactionHistory) :
                           InLocal(returned.interactionHistory[i].id) = 0
                     /\ \A i \in row :
                           /\ returned.preferredCategories =
                                  remotePreferences[i].preferred_categories
                           /\ returned.preferredBrands = remotePreferences[i].preferred_brands
                           /\ returned.preferredFeatures =
                                  remotePreferences[i].preferred_features
                     /\ row = {} =>
                           /\ returned.preferredCategories = <<>>
                           /\ returned.preferredBrands = <<>>
                           /\ returned.preferredFeatures = <<>>]_vars

\* C30 witness: with one event in the table, one mirrored locally, u1's
\* failed update ['Books'] in the local entry and a later update in the
\* table, a read whose requests all succeeded returned the table's event and
\* the table's categories.
C30_Witness ==
    /\ ReadDone(1)
    /\ ~RemoteFailed(tasks[1])
    /\ Len(tasks[1].sent) = 3
    /\ Len(remoteInteractions) = 1
    /\ Len(localInteractions) = 1
    /\ localInteractions[1].userId = ReadTarget(tasks[1])
    /\ Len(tasks[1].result.interactionHistory) = 1
    /\ tasks[1].result.interactionHistory[1].id = remoteInteractions[1].id
    /\ "u1" \in DOMAIN localPreferences
    /\ localPreferences["u1"].preferredCategories = <<"Books">>
    /\ tasks[1].result.preferredCategories = <<"Electronics">>

----------------------------------------------------------------------------
\* Properties of the recommendation flow (checked under SpecHistory).

\* C28: when generateRecommendations is handed the preferences that
\* getUserPreferences read from the remote store (the history newest first),
\* the at most 20 interactions embedded in the behaviour-analysis prompt are
\* the user's 20 most recent interactions.  (Refuted: slice(-20) takes the
\* end of the newest-first history, its 20 oldest entries.)
C28_MostRecentPrompted ==
    (/\ pc = "analysis"
     /\ ReadDone(1)
     /\ ~RemoteFailed(tasks[1])
     /\ userPreferences = tasks[1].result) =>
        LET prompted == RecentInteractions(userPreferences)
            mine == {i \in 1..Len(remoteInteractions) :
                        /\ remoteInteractions[i].user_id = ReadTarget(tasks[1])
                        /\ remoteInteractions[i].user_id = tasks[1].user}
            mostRecent ==
                {i \in mine :
                    Cardinality({j \in mine : remoteInteractions[j].created_at
                                                 > remoteInteractions[i].created_at})
                        < RecentWindow}
        IN  /\ Len(prompted) = Cardinality(mostRecent)
            /\ {prompted[k].timestamp[2] : k \in 1..Len(prompted)}
                   = {remoteInteractions[i].created_at : i \in mostRecent}

====
